---- MODULE Spec2Model ----
(***************************************************************************)
(* Model of the motion / position core of the BCC950 control library:     *)
(* MotionController (src/cpp/src/motion.cpp), PositionTracker              *)
(* (src/cpp/src/position.cpp) and the Controller facade                    *)
(* (src/cpp/src/controller.cpp).                                           *)
(*                                                                         *)
(* Conventions.                                                            *)
(*  - pc[t] is the line of motion.cpp that thread t executes next (0 when  *)
(*    t is in no motion function).                                         *)
(*  - double values (pan, tilt, durations, estimator bounds) are fixed     *)
(*    point numbers in tenths: 5.0 is 50, the default duration 0.1 is 1.   *)
(*    Durations are finite; floating point rounding is not modelled.       *)
(*  - int values are 32 bit.  A signed overflow is undefined behaviour and *)
(*    is modelled as a choice between the wrapped and the saturated        *)
(*    result.                                                              *)
(*  - Controller::config() hands out the Config for writing, so a named    *)
(*    move reads whatever is configured at that moment: the read draws     *)
(*    from Configs.                                                        *)
(*  - a thread's arguments are its own; they are drawn in the step that    *)
(*    acquires the lock (the clamping of lines 24, 34, 44-45, 59-61 and 76 *)
(*    is a pure function of them), which keeps blocked threads small.      *)
(***************************************************************************)
EXTENDS Integers, Sequences, FiniteSets, TLC

VARIABLES
    mutex,   \* MotionController::mutex_ : 0 when free, else the holder
    pc,      \* per thread: next line of motion.cpp, 0 outside
    st,      \* per thread: "idle" | "running" | "throwing" | "returned" | "threw"
    fr,      \* per thread: the arguments and locals of the running call
    log,     \* per thread: what the running call has done so far
    pos,     \* the PositionTracker shared by Controller and MotionController
    ctl,     \* the device: last value written to each control
    ncalls,  \* number of calls started so far
    hist,    \* the zoom calls that have come to an end, in order
    op,      \* last operation a client applied to a PositionTracker of its
             \* own (SpecPos); "none" in Spec
    rp,      \* per thread: the line of controller.cpp at which its
             \* Controller::reset_position stands, 0 outside it
    peer,    \* a second MotionController with a device of its own (SpecTwo)
    presets, \* PresetManager::presets_ (SpecPresets)
    file,    \* the presets file at PresetManager::path_
    ret,     \* what the last PresetManager call returned
    cam,     \* what the last call of the Controller outside the motion and
             \* preset operations did and returned
    cfg,     \* a Config: its data_ and the last call made on it
    cfgfile  \* the configuration file at Config::path_

vars == <<mutex, pc, st, fr, log, pos, ctl, ncalls, hist, op, rp,
          peer, presets, file, ret, cam, cfg, cfgfile>>

\* what the motion operations of the one Controller leave alone
aside == <<peer, presets, file, ret, cam, cfg, cfgfile>>

(***************************** bounds *************************************)
NThreads == 2
MaxCalls == 2

Threads == 1..NThreads

(************************* constants.hpp **********************************)
CTRL_PAN_SPEED     == "PAN_SPEED"
CTRL_TILT_SPEED    == "TILT_SPEED"
CTRL_ZOOM_ABSOLUTE == "ZOOM_ABSOLUTE"

ZOOM_MIN     == 100
ZOOM_MAX     == 500
ZOOM_DEFAULT == ZOOM_MIN

PAN_SPEED_MIN == -1
PAN_SPEED_MAX == 1

DEFAULT_PAN_SPEED  == 1
DEFAULT_TILT_SPEED == 1
DEFAULT_ZOOM_STEP  == 10

EST_PAN_MIN  == -50
EST_PAN_MAX  == 50
EST_TILT_MIN == -30
EST_TILT_MAX == 30

\* the range of int
INT_MAX == 2147483647
INT_MIN == (-INT_MAX) - 1

(************************** input domains *********************************)
\* directions handed to pan / tilt / combined_move: below, inside, above [-1, 1]
Dirs == {-2, 0, 1}
\* durations in tenths of a second: negative, zero, and 4 s (inside the pan
\* range, beyond the tilt range; twice 4 s is beyond the pan range)
Durs == {-20, 0, 40}
\* zoom targets: below, inside, above [ZOOM_MIN, ZOOM_MAX]
Zooms == {50, 300, 9999}
\* zoom deltas
Deltas == {-200, 10, INT_MAX}
\* configurations: the defaults, and the extremes of int
Configs ==
    { [pan_speed |-> DEFAULT_PAN_SPEED, tilt_speed |-> DEFAULT_TILT_SPEED,
       zoom_step |-> DEFAULT_ZOOM_STEP],
      [pan_speed |-> INT_MIN, tilt_speed |-> INT_MAX, zoom_step |-> INT_MAX] }

(*************************** integer helpers ******************************)
\* -x in int: overflows for INT_MIN only
NegOutcomes(x) == IF x = INT_MIN THEN {INT_MIN, INT_MAX} ELSE {-x}

\* std::clamp(v, lo, hi)
clamp(v, lo, hi) == IF v < lo THEN lo ELSE IF hi < v THEN hi ELSE v

clamp_speed_wide(value) == clamp(value, -2, 2)

clamp_speed(value) == clamp(value, PAN_SPEED_MIN, PAN_SPEED_MAX)

clamp_zoom_nomax(value) == IF value < ZOOM_MIN THEN ZOOM_MIN ELSE value

clamp_zoom(value) == clamp(value, ZOOM_MIN, ZOOM_MAX)

\* clamp_zoom(z + delta) with z + delta evaluated in int: when the sum leaves
\* the range of int the result is either the clamped wrapped sum or the
\* clamped exact sum.
ClampZoomSum(z, delta) ==
    IF delta > 0 /\ z > INT_MAX - delta
    THEN {clamp_zoom(INT_MIN + ((z - (INT_MAX - delta)) - 1)), ZOOM_MAX}
    ELSE IF delta < 0 /\ z < INT_MIN - delta
    THEN {clamp_zoom(INT_MAX - (((INT_MIN - delta) - z) - 1)), ZOOM_MIN}
    ELSE {clamp_zoom(z + delta)}

(*************************** PositionTracker ******************************)
FreshTracker(pmin, pmax, tmin, tmax) ==
    [pan |-> 0, tilt |-> 0, zoom |-> ZOOM_DEFAULT,
     pan_min |-> pmin, pan_max |-> pmax, tilt_min |-> tmin, tilt_max |-> tmax]

PositionTracker == FreshTracker(EST_PAN_MIN, EST_PAN_MAX, EST_TILT_MIN, EST_TILT_MAX)

update_pan_noclamp(p, speed, duration) ==
    [p EXCEPT !.pan = p.pan + speed * duration]

update_pan_clamp_step(p, speed, duration) ==
    [p EXCEPT !.pan = p.pan + clamp(speed * duration, p.pan_min, p.pan_max)]

update_pan(p, speed, duration) ==
    [p EXCEPT !.pan = clamp(p.pan + speed * duration, p.pan_min, p.pan_max)]

update_tilt_panrange(p, speed, duration) ==
    [p EXCEPT !.tilt = clamp(p.tilt + speed * duration, p.pan_min, p.pan_max)]

update_tilt(p, speed, duration) ==
    [p EXCEPT !.tilt = clamp(p.tilt + speed * duration, p.tilt_min, p.tilt_max)]

\* an update_zoom that stores nothing
update_zoom_dropped(p, value) == p

update_zoom(p, value) ==
    [p EXCEPT !.zoom = clamp(value, ZOOM_MIN, ZOOM_MAX)]

\* std::sqrt of a sum of two squares x*x + y*y, rounded down to the
\* resolution of the model
sqrt(n, x, y) ==
    LET ax == IF x < 0 THEN -x ELSE x
        ay == IF y < 0 THEN -y ELSE y
    IN  CHOOSE r \in 0..(ax + ay) : r * r <= n /\ n < (r + 1) * (r + 1)

distance_to_with_zoom(p, other) ==
    LET dp == p.pan - other.pan
        dt == (p.tilt - other.tilt) + (p.zoom - other.zoom)
    IN  sqrt(dp * dp + dt * dt, dp, dt)

\* PositionTracker::distance_to
distance_to(p, other) ==
    LET dp == p.pan - other.pan
        dt == p.tilt - other.tilt
    IN  sqrt(dp * dp + dt * dt, dp, dt)

reset_pan_only(p) == [p EXCEPT !.pan = 0, !.zoom = ZOOM_DEFAULT]

reset(p) == [p EXCEPT !.pan = 0, !.tilt = 0, !.zoom = ZOOM_DEFAULT]

(***************************** call frames ********************************)
Controls == {CTRL_PAN_SPEED, CTRL_TILT_SPEED, CTRL_ZOOM_ABSOLUTE}

\* MockV4L2Device::get_control: a control never written reads 0
NoControls == [id \in Controls |-> 0]

NoFrame ==
    [api |-> "none", pan_dir |-> 0, tilt_dir |-> 0, value |-> 0, duration |-> 0,
     pan_speed |-> 0, tilt_speed |-> 0, zoom |-> 0,
     pos0 |-> PositionTracker]

Ev(k, id, v, d) == [k |-> k, id |-> id, v |-> v, d |-> d]
EvLock            == Ev("lock", "", 0, 0)
EvSet(id, value)  == Ev("set", id, value, 0)
EvSleep(duration) == Ev("sleep", "", 0, duration)
EvUpdatePan(speed, duration)  == Ev("update_pan", "", speed, duration)
EvUpdateTilt(speed, duration) == Ev("update_tilt", "", speed, duration)
EvUpdateZoom(value)           == Ev("update_zoom", "", value, 0)
EvUnlock          == Ev("unlock", "", 0, 0)

(**************************** building blocks *****************************)
\* the calls that write the zoom
ZoomApis == {"combined_move_with_zoom", "zoom_absolute", "zoom_relative",
             "zoom_in", "zoom_out"}

\* history of the zoom calls that have come to an end: how each ended and,
\* for one that returned, whether it set the zoom ("abs") or moved it
\* ("rel"), and by what
Record(h, api, k, v) ==
    IF api \in ZoomApis THEN Append(h, [k |-> k, v |-> v]) ELSE h

\* thread t is about to execute line `line` of motion.cpp
At(t, line) == st[t] = "running" /\ pc[t] = line

\* a call enters a MotionController function: the thread is at the line of
\* the function's lock_guard
Enter(t, api, line) ==
    /\ st[t] \in {"idle", "returned", "threw"}
    /\ rp[t] = 0
    /\ ncalls < MaxCalls
    /\ st' = [st EXCEPT ![t] = "running"]
    /\ pc' = [pc EXCEPT ![t] = line]
    /\ fr' = [fr EXCEPT ![t] = [NoFrame EXCEPT !.api = api]]
    /\ log' = [log EXCEPT ![t] = <<>>]
    /\ ncalls' = ncalls + 1
    /\ UNCHANGED <<mutex, pos, ctl, hist, op, rp, aside>>

LockNoWait(t) == mutex' = t

\* std::lock_guard<std::mutex> lock(mutex_): blocks while another thread holds it
Lock(t) == mutex = 0 /\ mutex' = t

\* a lock step that does not wait for the holder
AcquireAtOnce(t, frame, next) ==
    /\ mutex' = t
    /\ fr' = [fr EXCEPT ![t] = [frame EXCEPT !.pos0 = pos]]
    /\ log' = [log EXCEPT ![t] = Append(@, EvLock)]
    /\ pc' = [pc EXCEPT ![t] = next]
    /\ UNCHANGED <<st, pos, ctl, ncalls, hist, op, rp, aside>>

\* the lock step of a function: acquire, bind the arguments and locals
Acquire(t, frame, next) ==
    /\ Lock(t)
    /\ fr' = [fr EXCEPT ![t] = [frame EXCEPT !.pos0 = pos]]
    /\ log' = [log EXCEPT ![t] = Append(@, EvLock)]
    /\ pc' = [pc EXCEPT ![t] = next]
    /\ UNCHANGED <<st, pos, ctl, ncalls, hist, op, rp, aside>>

\* a throw that would first write zero to both speed controls
ThrowAfterStop(t) ==
    /\ st' = [st EXCEPT ![t] = "throwing"]
    /\ fr' = [fr EXCEPT ![t] = [NoFrame EXCEPT !.api = fr[t].api,
                                               !.pos0 = fr[t].pos0]]
    /\ log' = [log EXCEPT ![t] = <<>>]
    /\ ctl' = [ctl EXCEPT ![CTRL_PAN_SPEED] = 0, ![CTRL_TILT_SPEED] = 0]
    /\ UNCHANGED <<mutex, pc, pos, ncalls, hist, op, rp, aside>>

\* a statement at line pc[t] throws V4L2Error: the exception is in flight and
\* the locals are gone; the snapshot taken at the lock stays for the record
Throw(t) ==
    /\ st' = [st EXCEPT ![t] = "throwing"]
    /\ fr' = [fr EXCEPT ![t] = [NoFrame EXCEPT !.api = fr[t].api,
                                               !.pos0 = fr[t].pos0]]
    /\ log' = [log EXCEPT ![t] = <<>>]
    /\ UNCHANGED <<mutex, pc, pos, ctl, ncalls, hist, op, rp, aside>>

UnwindKeepLock(t) ==
    /\ st[t] = "throwing"
    /\ st' = [st EXCEPT ![t] = "threw"]
    /\ pc' = [pc EXCEPT ![t] = 0]
    /\ fr' = [fr EXCEPT ![t] = NoFrame]
    /\ log' = [log EXCEPT ![t] = <<>>]
    /\ hist' = Record(hist, fr[t].api, "threw", 0)
    /\ rp' = [rp EXCEPT ![t] = 0]
    /\ UNCHANGED <<mutex, pos, ctl, ncalls, op, aside>>

\* the exception leaves the function: the lock_guard is destroyed and the
\* caller sees the error
Unwind(t) ==
    /\ st[t] = "throwing"
    /\ mutex' = IF mutex = t THEN 0 ELSE mutex
    /\ st' = [st EXCEPT ![t] = "threw"]
    /\ pc' = [pc EXCEPT ![t] = 0]
    /\ fr' = [fr EXCEPT ![t] = NoFrame]
    /\ log' = [log EXCEPT ![t] = <<>>]
    /\ hist' = Record(hist, fr[t].api, "threw", 0)
    /\ rp' = [rp EXCEPT ![t] = 0]
    /\ UNCHANGED <<pos, ctl, ncalls, op, aside>>

\* device_->set_control(id, value): writes the control, or throws V4L2Error
SetControl(t, id, value, next) ==
    \/ /\ ctl' = [ctl EXCEPT ![id] = value]
       /\ log' = [log EXCEPT ![t] = Append(@, EvSet(id, value))]
       /\ pc' = [pc EXCEPT ![t] = next]
       /\ UNCHANGED <<mutex, st, fr, pos, ncalls, hist, op, rp, aside>>
    \/ Throw(t)

\* std::this_thread::sleep_for(duration)
sleep_for(t, duration, next) ==
    /\ log' = [log EXCEPT ![t] = Append(@, EvSleep(duration))]
    /\ pc' = [pc EXCEPT ![t] = next]
    /\ UNCHANGED <<mutex, st, fr, pos, ctl, ncalls, hist, op, rp, aside>>

\* one position_->update_...() statement
Update(t, newpos, ev, next) ==
    /\ pos' = newpos
    /\ log' = [log EXCEPT ![t] = Append(@, ev)]
    /\ pc' = [pc EXCEPT ![t] = next]
    /\ UNCHANGED <<mutex, st, fr, ctl, ncalls, hist, op, rp, aside>>

\* a return that would leave the mutex locked
ReturnKeepLock(t) ==
    /\ st[t] = "running"
    /\ st' = [st EXCEPT ![t] = "returned"]
    /\ pc' = [pc EXCEPT ![t] = 0]
    /\ fr' = [fr EXCEPT ![t] = NoFrame]
    /\ log' = [log EXCEPT ![t] = IF rp[t] = 0 THEN <<>> ELSE Append(@, EvUnlock)]
    /\ hist' = Record(hist, fr[t].api,
                      IF pc[t] = 87 THEN "rel" ELSE "abs", fr[t].value)
    /\ rp' = [rp EXCEPT ![t] = IF @ = 0 THEN 0 ELSE @ + 1]
    /\ UNCHANGED <<mutex, pos, ctl, ncalls, op, aside>>

\* the closing brace: the lock_guard releases the mutex, the call returns
Return(t) ==
    /\ st[t] = "running"
    /\ mutex' = IF mutex = t THEN 0 ELSE mutex
    /\ st' = [st EXCEPT ![t] = "returned"]
    /\ pc' = [pc EXCEPT ![t] = 0]
    /\ fr' = [fr EXCEPT ![t] = NoFrame]
    /\ log' = [log EXCEPT ![t] = IF rp[t] = 0 THEN <<>> ELSE Append(@, EvUnlock)]
    /\ hist' = Record(hist, fr[t].api,
                      IF pc[t] = 87 THEN "rel" ELSE "abs", fr[t].value)
    /\ rp' = [rp EXCEPT ![t] = IF @ = 0 THEN 0 ELSE @ + 1]
    /\ UNCHANGED <<pos, ctl, ncalls, op, aside>>

(************************ Controller: named moves *************************)
pan_left(t)   == Enter(t, "pan_left", 25)
pan_right(t)  == Enter(t, "pan_right", 25)
tilt_up(t)    == Enter(t, "tilt_up", 35)
tilt_down(t)  == Enter(t, "tilt_down", 35)
zoom_in(t)    == Enter(t, "zoom_in", 83)
zoom_out(t)   == Enter(t, "zoom_out", 83)

\* pan_left and pan_right with their signs exchanged
PanDirectionsSwapped(api) ==
    IF api = "reset_position:78" THEN {1}
    ELSE IF api = "reset_position:79" THEN {-1}
    ELSE IF api = "pan_right" THEN UNION {NegOutcomes(config_.pan_speed) : config_ \in Configs}
    ELSE IF api = "pan_left" THEN {config_.pan_speed : config_ \in Configs}
    ELSE Dirs

\* the direction argument of MotionController::pan, by caller
PanDirections(api) ==
    IF api = "reset_position:78" THEN {1}
    ELSE IF api = "reset_position:79" THEN {-1}
    ELSE IF api = "pan_left" THEN UNION {NegOutcomes(config_.pan_speed) : config_ \in Configs}
    ELSE IF api = "pan_right" THEN {config_.pan_speed : config_ \in Configs}
    ELSE Dirs

\* the direction argument of MotionController::tilt, by caller
TiltDirections(api) ==
    IF api = "reset_position:80" THEN {1}
    ELSE IF api = "reset_position:81" THEN {-1}
    ELSE IF api = "tilt_down" THEN UNION {NegOutcomes(config_.tilt_speed) : config_ \in Configs}
    ELSE IF api = "tilt_up" THEN {config_.tilt_speed : config_ \in Configs}
    ELSE Dirs

\* the delta argument of MotionController::zoom_relative, by caller
ZoomDeltas(api) ==
    IF api = "zoom_in" THEN {config_.zoom_step : config_ \in Configs}
    ELSE IF api = "zoom_out" THEN UNION {NegOutcomes(config_.zoom_step) : config_ \in Configs}
    ELSE Deltas

\* the duration argument of MotionController::pan and tilt, by caller:
\* reset_position passes 0.1
Durations(api) ==
    IF api \in {"reset_position:78", "reset_position:79",
                "reset_position:80", "reset_position:81"} THEN {1}
    ELSE Durs

\* the value argument of MotionController::zoom_absolute, by caller:
\* reset_position passes ZOOM_MIN, recall_preset the zoom of the preset it
\* found, which the frame of the call carries
ZoomValues(frame) ==
    IF frame.api = "reset_position:82" THEN {ZOOM_MIN}
    ELSE IF frame.api = "recall_preset" THEN {frame.value}
    ELSE Zooms

(***************************** MotionController ***************************)
pan_estimate_before_stop(t) ==
    \/ Enter(t, "pan", 25)
    \/ /\ At(t, 25)
       /\ \E direction \in PanDirections(fr[t].api), duration \in Durations(fr[t].api) :
              Acquire(t, [fr[t] EXCEPT !.pan_dir = direction, !.duration = duration,
                                       !.pan_speed = clamp_speed(direction)], 26)
    \/ /\ At(t, 26)
       /\ SetControl(t, CTRL_PAN_SPEED, fr[t].pan_speed, 27)
    \/ /\ At(t, 27)
       /\ sleep_for(t, fr[t].duration, 30)
    \/ /\ At(t, 30)
       /\ Update(t, update_pan(pos, fr[t].pan_speed, fr[t].duration),
                 EvUpdatePan(fr[t].pan_speed, fr[t].duration), 29)
    \/ /\ At(t, 29)
       /\ SetControl(t, CTRL_PAN_SPEED, 0, 31)
    \/ /\ At(t, 31)
       /\ Return(t)

pan(t) ==
    \/ Enter(t, "pan", 25)
    \/ /\ At(t, 25)
       /\ \E direction \in PanDirections(fr[t].api), duration \in Durations(fr[t].api) :
              Acquire(t, [fr[t] EXCEPT !.pan_dir = direction, !.duration = duration,
                                       !.pan_speed = clamp_speed(direction)], 26)
    \/ /\ At(t, 26)
       /\ SetControl(t, CTRL_PAN_SPEED, fr[t].pan_speed, 27)
    \/ /\ At(t, 27)
       /\ sleep_for(t, fr[t].duration, 29)
    \/ /\ At(t, 29)
       /\ SetControl(t, CTRL_PAN_SPEED, 0, 30)
    \/ /\ At(t, 30)
       /\ Update(t, update_pan(pos, fr[t].pan_speed, fr[t].duration),
                 EvUpdatePan(fr[t].pan_speed, fr[t].duration), 31)
    \/ /\ At(t, 31)
       /\ Return(t)

tilt(t) ==
    \/ Enter(t, "tilt", 35)
    \/ /\ At(t, 35)
       /\ \E direction \in TiltDirections(fr[t].api), duration \in Durations(fr[t].api) :
              Acquire(t, [fr[t] EXCEPT !.tilt_dir = direction, !.duration = duration,
                                       !.tilt_speed = clamp_speed(direction)], 36)
    \/ /\ At(t, 36)
       /\ SetControl(t, CTRL_TILT_SPEED, fr[t].tilt_speed, 37)
    \/ /\ At(t, 37)
       /\ sleep_for(t, fr[t].duration, 39)
    \/ /\ At(t, 39)
       /\ SetControl(t, CTRL_TILT_SPEED, 0, 40)
    \/ /\ At(t, 40)
       /\ Update(t, update_tilt(pos, fr[t].tilt_speed, fr[t].duration),
                 EvUpdateTilt(fr[t].tilt_speed, fr[t].duration), 41)
    \/ /\ At(t, 41)
       /\ Return(t)

combined_move(t) ==
    \/ Enter(t, "combined_move", 46)
    \/ /\ At(t, 46)
       /\ \E pan_dir \in Dirs, tilt_dir \in Dirs, duration \in Durs :
              Acquire(t, [fr[t] EXCEPT !.pan_dir = pan_dir, !.tilt_dir = tilt_dir,
                                       !.duration = duration,
                                       !.pan_speed = clamp_speed(pan_dir),
                                       !.tilt_speed = clamp_speed(tilt_dir)], 47)
    \/ /\ At(t, 47)
       /\ SetControl(t, CTRL_PAN_SPEED, fr[t].pan_speed, 48)
    \/ /\ At(t, 48)
       /\ SetControl(t, CTRL_TILT_SPEED, fr[t].tilt_speed, 49)
    \/ /\ At(t, 49)
       /\ sleep_for(t, fr[t].duration, 51)
    \/ /\ At(t, 51)
       /\ SetControl(t, CTRL_PAN_SPEED, 0, 52)
    \/ /\ At(t, 52)
       /\ SetControl(t, CTRL_TILT_SPEED, 0, 53)
    \/ /\ At(t, 53)
       /\ Update(t, update_pan(pos, fr[t].pan_speed, fr[t].duration),
                 EvUpdatePan(fr[t].pan_speed, fr[t].duration), 54)
    \/ /\ At(t, 54)
       /\ Update(t, update_tilt(pos, fr[t].tilt_speed, fr[t].duration),
                 EvUpdateTilt(fr[t].tilt_speed, fr[t].duration), 55)
    \/ /\ At(t, 55)
       /\ Return(t)

combined_move_with_zoom_after_wait(t) ==
    \/ Enter(t, "combined_move_with_zoom", 62)
    \/ /\ At(t, 62)
       /\ \E pan_dir \in Dirs, tilt_dir \in Dirs, zoom_target \in Zooms, duration \in Durs :
              Acquire(t, [fr[t] EXCEPT !.pan_dir = pan_dir, !.tilt_dir = tilt_dir,
                                       !.value = zoom_target, !.duration = duration,
                                       !.pan_speed = clamp_speed(pan_dir),
                                       !.tilt_speed = clamp_speed(tilt_dir),
                                       !.zoom = clamp_zoom(zoom_target)], 63)
    \/ /\ At(t, 63)
       /\ SetControl(t, CTRL_PAN_SPEED, fr[t].pan_speed, 64)
    \/ /\ At(t, 64)
       /\ SetControl(t, CTRL_TILT_SPEED, fr[t].tilt_speed, 66)
    \/ /\ At(t, 66)
       /\ sleep_for(t, fr[t].duration, 65)
    \/ /\ At(t, 65)
       /\ SetControl(t, CTRL_ZOOM_ABSOLUTE, fr[t].zoom, 68)
    \/ /\ At(t, 68)
       /\ SetControl(t, CTRL_PAN_SPEED, 0, 69)
    \/ /\ At(t, 69)
       /\ SetControl(t, CTRL_TILT_SPEED, 0, 70)
    \/ /\ At(t, 70)
       /\ Update(t, update_pan(pos, fr[t].pan_speed, fr[t].duration),
                 EvUpdatePan(fr[t].pan_speed, fr[t].duration), 71)
    \/ /\ At(t, 71)
       /\ Update(t, update_tilt(pos, fr[t].tilt_speed, fr[t].duration),
                 EvUpdateTilt(fr[t].tilt_speed, fr[t].duration), 72)
    \/ /\ At(t, 72)
       /\ Update(t, update_zoom(pos, fr[t].zoom), EvUpdateZoom(fr[t].zoom), 73)
    \/ /\ At(t, 73)
       /\ Return(t)

combined_move_with_zoom(t) ==
    \/ Enter(t, "combined_move_with_zoom", 62)
    \/ /\ At(t, 62)
       /\ \E pan_dir \in Dirs, tilt_dir \in Dirs, zoom_target \in Zooms, duration \in Durs :
              Acquire(t, [fr[t] EXCEPT !.pan_dir = pan_dir, !.tilt_dir = tilt_dir,
                                       !.value = zoom_target, !.duration = duration,
                                       !.pan_speed = clamp_speed(pan_dir),
                                       !.tilt_speed = clamp_speed(tilt_dir),
                                       !.zoom = clamp_zoom(zoom_target)], 63)
    \/ /\ At(t, 63)
       /\ SetControl(t, CTRL_PAN_SPEED, fr[t].pan_speed, 64)
    \/ /\ At(t, 64)
       /\ SetControl(t, CTRL_TILT_SPEED, fr[t].tilt_speed, 65)
    \/ /\ At(t, 65)
       /\ SetControl(t, CTRL_ZOOM_ABSOLUTE, fr[t].zoom, 66)
    \/ /\ At(t, 66)
       /\ sleep_for(t, fr[t].duration, 68)
    \/ /\ At(t, 68)
       /\ SetControl(t, CTRL_PAN_SPEED, 0, 69)
    \/ /\ At(t, 69)
       /\ SetControl(t, CTRL_TILT_SPEED, 0, 70)
    \/ /\ At(t, 70)
       /\ Update(t, update_pan(pos, fr[t].pan_speed, fr[t].duration),
                 EvUpdatePan(fr[t].pan_speed, fr[t].duration), 71)
    \/ /\ At(t, 71)
       /\ Update(t, update_tilt(pos, fr[t].tilt_speed, fr[t].duration),
                 EvUpdateTilt(fr[t].tilt_speed, fr[t].duration), 72)
    \/ /\ At(t, 72)
       /\ Update(t, update_zoom(pos, fr[t].zoom), EvUpdateZoom(fr[t].zoom), 73)
    \/ /\ At(t, 73)
       /\ Return(t)

\* zoom_absolute without the clamp of line 76
zoom_absolute_raw(t) ==
    \/ Enter(t, "zoom_absolute", 77)
    \/ /\ At(t, 77)
       /\ \E value \in ZoomValues(fr[t]) :
              Acquire(t, [fr[t] EXCEPT !.value = value, !.zoom = value], 78)
    \/ /\ At(t, 78)
       /\ SetControl(t, CTRL_ZOOM_ABSOLUTE, fr[t].zoom, 79)
    \/ /\ At(t, 79)
       /\ Update(t, update_zoom(pos, fr[t].zoom), EvUpdateZoom(fr[t].zoom), 80)
    \/ /\ At(t, 80)
       /\ Return(t)

zoom_absolute(t) ==
    \/ Enter(t, "zoom_absolute", 77)
    \/ /\ At(t, 77)
       /\ \E value \in ZoomValues(fr[t]) :
              Acquire(t, [fr[t] EXCEPT !.value = value, !.zoom = clamp_zoom(value)], 78)
    \/ /\ At(t, 78)
       /\ SetControl(t, CTRL_ZOOM_ABSOLUTE, fr[t].zoom, 79)
    \/ /\ At(t, 79)
       /\ Update(t, update_zoom(pos, fr[t].zoom), EvUpdateZoom(fr[t].zoom), 80)
    \/ /\ At(t, 80)
       /\ Return(t)

zoom_relative_read_unlocked(t) ==
    \/ Enter(t, "zoom_relative", 83)
    \/ /\ At(t, 83)
       /\ \E delta \in ZoomDeltas(fr[t].api) :
           \E new_value \in ClampZoomSum(pos.zoom, delta) :
              fr' = [fr EXCEPT ![t] = [fr[t] EXCEPT !.value = delta,
                                                    !.zoom = new_value]]
       /\ pc' = [pc EXCEPT ![t] = 84]
       /\ UNCHANGED <<mutex, st, log, pos, ctl, ncalls, hist, op, rp, aside>>
    \/ /\ At(t, 84)
       /\ Acquire(t, fr[t], 85)
    \/ /\ At(t, 85)
       /\ SetControl(t, CTRL_ZOOM_ABSOLUTE, fr[t].zoom, 86)
    \/ /\ At(t, 86)
       /\ Update(t, update_zoom(pos, fr[t].zoom), EvUpdateZoom(fr[t].zoom), 87)
    \/ /\ At(t, 87)
       /\ Return(t)

zoom_relative(t) ==
    \/ Enter(t, "zoom_relative", 83)
    \/ /\ At(t, 83)
       /\ \E delta \in ZoomDeltas(fr[t].api) :
              Acquire(t, [fr[t] EXCEPT !.value = delta], 84)
    \/ /\ At(t, 84)
       /\ \E new_value \in ClampZoomSum(pos.zoom, fr[t].value) :
              fr' = [fr EXCEPT ![t].zoom = new_value]
       /\ pc' = [pc EXCEPT ![t] = 85]
       /\ UNCHANGED <<mutex, st, log, pos, ctl, ncalls, hist, op, rp, aside>>
    \/ /\ At(t, 85)
       /\ SetControl(t, CTRL_ZOOM_ABSOLUTE, fr[t].zoom, 86)
    \/ /\ At(t, 86)
       /\ Update(t, update_zoom(pos, fr[t].zoom), EvUpdateZoom(fr[t].zoom), 87)
    \/ /\ At(t, 87)
       /\ Return(t)

stop_pan_only(t) ==
    \/ Enter(t, "stop", 90)
    \/ /\ At(t, 90)
       /\ Acquire(t, fr[t], 91)
    \/ /\ At(t, 91)
       /\ SetControl(t, CTRL_PAN_SPEED, 0, 93)
    \/ /\ At(t, 93)
       /\ Return(t)

stop(t) ==
    \/ Enter(t, "stop", 90)
    \/ /\ At(t, 90)
       /\ Acquire(t, fr[t], 91)
    \/ /\ At(t, 91)
       /\ SetControl(t, CTRL_PAN_SPEED, 0, 92)
    \/ /\ At(t, 92)
       /\ SetControl(t, CTRL_TILT_SPEED, 0, 93)
    \/ /\ At(t, 93)
       /\ Return(t)

(********************* Controller::reset_position ************************)
EvReset == Ev("reset", "", 0, 0)

\* the statement at line `line` of controller.cpp calls the MotionController
\* function whose lock_guard is at line `entry` of motion.cpp
Invoke(t, line, api, entry) ==
    /\ rp[t] = line
    /\ st[t] \in {"idle", "returned", "threw"}
    /\ st' = [st EXCEPT ![t] = "running"]
    /\ pc' = [pc EXCEPT ![t] = entry]
    /\ fr' = [fr EXCEPT ![t] = [NoFrame EXCEPT !.api = api]]
    /\ UNCHANGED <<mutex, log, pos, ctl, ncalls, hist, op, rp, aside>>

reset_position_reset_before_zoom(t) ==
    \/ /\ rp[t] = 0
       /\ st[t] \in {"idle", "returned", "threw"}
       /\ ncalls < MaxCalls
       /\ rp' = [rp EXCEPT ![t] = 78]
       /\ log' = [log EXCEPT ![t] = <<>>]
       /\ ncalls' = ncalls + 1
       /\ UNCHANGED <<mutex, pc, st, fr, pos, ctl, hist, op, aside>>
    \/ Invoke(t, 78, "reset_position:78", 25)
    \/ Invoke(t, 79, "reset_position:79", 25)
    \/ Invoke(t, 80, "reset_position:80", 35)
    \/ Invoke(t, 81, "reset_position:81", 35)
    \/ /\ rp[t] = 82
       /\ st[t] \in {"idle", "returned", "threw"}
       /\ pos' = reset(pos)
       /\ log' = [log EXCEPT ![t] = Append(@, EvReset)]
       /\ rp' = [rp EXCEPT ![t] = 83]
       /\ UNCHANGED <<mutex, pc, st, fr, ctl, ncalls, hist, op, aside>>
    \/ Invoke(t, 83, "reset_position:82", 77)
    \/ /\ rp[t] = 84
       /\ rp' = [rp EXCEPT ![t] = 0]
       /\ st' = [st EXCEPT ![t] = "returned"]
       /\ log' = [log EXCEPT ![t] = <<>>]
       /\ UNCHANGED <<mutex, pc, fr, pos, ctl, ncalls, hist, op, aside>>

reset_position(t) ==
    \/ /\ rp[t] = 0
       /\ st[t] \in {"idle", "returned", "threw"}
       /\ ncalls < MaxCalls
       /\ rp' = [rp EXCEPT ![t] = 78]
       /\ log' = [log EXCEPT ![t] = <<>>]
       /\ ncalls' = ncalls + 1
       /\ UNCHANGED <<mutex, pc, st, fr, pos, ctl, hist, op, aside>>
    \/ Invoke(t, 78, "reset_position:78", 25)
    \/ Invoke(t, 79, "reset_position:79", 25)
    \/ Invoke(t, 80, "reset_position:80", 35)
    \/ Invoke(t, 81, "reset_position:81", 35)
    \/ Invoke(t, 82, "reset_position:82", 77)
    \/ /\ rp[t] = 83
       /\ st[t] \in {"idle", "returned", "threw"}
       /\ pos' = reset(pos)
       /\ log' = [log EXCEPT ![t] = Append(@, EvReset)]
       /\ rp' = [rp EXCEPT ![t] = 84]
       /\ UNCHANGED <<mutex, pc, st, fr, ctl, ncalls, hist, op, aside>>
    \/ /\ rp[t] = 84
       /\ rp' = [rp EXCEPT ![t] = 0]
       /\ st' = [st EXCEPT ![t] = "returned"]
       /\ log' = [log EXCEPT ![t] = <<>>]
       /\ UNCHANGED <<mutex, pc, fr, pos, ctl, ncalls, hist, op, aside>>

(******************** a second MotionController ***************************)
\* Each MotionController has a mutex_ of its own (motion.hpp 53).  Thread 1
\* calls pan on the Controller above, the other threads call pan on a second
\* MotionController constructed on another device.
NoPeer == [mutex |-> 0, ctl |-> NoControls, pos |-> PositionTracker]

\* no PresetManager yet
NoPresets == [name \in {} |-> 0]
NoFile == [exists |-> FALSE, text |-> <<>>]
NoRet ==
    [k |-> "none", name |-> <<>>, value |-> FALSE, before |-> NoPresets,
     threw |-> FALSE, clean |-> TRUE, obj |-> TRUE]

\* the items of the texts and strings of the model: a character, a printed
\* double, a printed int; a run of letters may stand as one item (Word)
Ch(c)  == [t |-> "ch", c |-> c, n |-> 0]
DblItem(n) == [t |-> "dbl", c |-> "", n |-> n]
IntItem(n) == [t |-> "int", c |-> "", n |-> n]
Word(w) == <<Ch(w)>>

DEFAULT_DEVICE == "/dev/video0"

\* no Config looked at: the configuration is abstracted by Configs
NoCfg == [k |-> "none"]

\* The Controller after a construction with default arguments: built says
\* that the object exists, is_open and open_path are the state of its
\* device, device_path_ is its member; k, arg, was_open, calls, supported,
\* value and threw record the last call.
NoCam ==
    [k |-> "none", arg |-> <<>>, was_open |-> FALSE, calls |-> <<>>, supported |-> {},
     value |-> FALSE, threw |-> FALSE, built |-> TRUE, is_open |-> TRUE,
     open_path |-> Word(DEFAULT_DEVICE), device_path_ |-> Word(DEFAULT_DEVICE)]

AsideInit ==
/\ peer = NoPeer /\ presets = NoPresets /\ file = NoFile /\ ret = NoRet /\ cam = NoCam
    /\ cfg = NoCfg /\ cfgfile = NoFile

PeerLockShared(t) == mutex = 0 /\ peer.mutex = 0 /\ peer' = [peer EXCEPT !.mutex = t]

\* std::lock_guard<std::mutex> lock(mutex_) in the second MotionController
PeerLock(t) == peer.mutex = 0 /\ peer' = [peer EXCEPT !.mutex = t]

\* device_->set_control(id, value) on the second device
PeerSetControl(t, id, value, next) ==
    \/ /\ peer' = [peer EXCEPT !.ctl[id] = value]
       /\ log' = [log EXCEPT ![t] = Append(@, EvSet(id, value))]
       /\ pc' = [pc EXCEPT ![t] = next]
       /\ UNCHANGED <<mutex, st, fr, pos, ctl, ncalls, hist, op, rp, presets, file, ret, cam, cfg, cfgfile>>
    \/ /\ st' = [st EXCEPT ![t] = "throwing"]
       /\ log' = [log EXCEPT ![t] = <<>>]
       /\ UNCHANGED <<mutex, pc, fr, pos, ctl, ncalls, hist, op, rp, aside>>

\* MotionController::pan on the second MotionController
peer_pan(t) ==
    \/ Enter(t, "pan", 25)
    \/ /\ At(t, 25)
       /\ PeerLock(t)
       /\ \E direction \in Dirs, duration \in Durs :
              fr' = [fr EXCEPT ![t] = [fr[t] EXCEPT !.pan_dir = direction,
                                                    !.duration = duration,
                                                    !.pan_speed = clamp_speed(direction),
                                                    !.pos0 = peer.pos]]
       /\ log' = [log EXCEPT ![t] = Append(@, EvLock)]
       /\ pc' = [pc EXCEPT ![t] = 26]
       /\ UNCHANGED <<mutex, st, pos, ctl, ncalls, hist, op, rp, presets, file, ret, cam, cfg, cfgfile>>
    \/ /\ At(t, 26)
       /\ PeerSetControl(t, CTRL_PAN_SPEED, fr[t].pan_speed, 27)
    \/ /\ At(t, 27)
       /\ sleep_for(t, fr[t].duration, 29)
    \/ /\ At(t, 29)
       /\ PeerSetControl(t, CTRL_PAN_SPEED, 0, 30)
    \/ /\ At(t, 30)
       /\ peer' = [peer EXCEPT !.pos = update_pan(@, fr[t].pan_speed, fr[t].duration)]
       /\ log' = [log EXCEPT ![t] = Append(@, EvUpdatePan(fr[t].pan_speed, fr[t].duration))]
       /\ pc' = [pc EXCEPT ![t] = 31]
       /\ UNCHANGED <<mutex, st, fr, pos, ctl, ncalls, hist, op, rp, presets, file, ret, cam, cfg, cfgfile>>
    \/ /\ st[t] \in {"running", "throwing"}
       /\ pc[t] = IF st[t] = "running" THEN 31 ELSE pc[t]
       /\ peer' = [peer EXCEPT !.mutex = IF @ = t THEN 0 ELSE @]
       /\ st' = [st EXCEPT ![t] = IF @ = "running" THEN "returned" ELSE "threw"]
       /\ pc' = [pc EXCEPT ![t] = 0]
       /\ fr' = [fr EXCEPT ![t] = NoFrame]
       /\ log' = [log EXCEPT ![t] = <<>>]
       /\ UNCHANGED <<mutex, pos, ctl, ncalls, hist, op, rp, presets, file, ret, cam, cfg, cfgfile>>

(***************************** Controller info ****************************)
\* IV4L2Device::query_control that never fails, as the mock's does
query_control_mock(supported, id) == TRUE

\* IV4L2Device::query_control(id) on a device that answers the controls in
\* `supported`: TRUE when it returns, FALSE when it throws V4L2Error
query_control(supported, id) == id \in supported

\* the queries of the try block in order, up to the first that throws
RECURSIVE Queried(_, _)
Queried(supported, ids) ==
    IF ids = <<>> THEN <<>>
    ELSE IF query_control(supported, Head(ids))
         THEN <<[fn |-> "query_control", id |-> Head(ids), ok |-> TRUE]>>
              \o Queried(supported, Tail(ids))
         ELSE <<[fn |-> "query_control", id |-> Head(ids), ok |-> FALSE]>>

\* Controller::has_ptz_support: takes no lock; the catch turns the V4L2Error
\* of a query into false
has_ptz_support(t) ==
    /\ cam.built
    /\ st[t] \in {"idle", "returned", "threw"}
    /\ rp[t] = 0
    /\ \E supported \in SUBSET Controls :
          LET calls == Queried(supported,
                               <<CTRL_PAN_SPEED, CTRL_TILT_SPEED, CTRL_ZOOM_ABSOLUTE>>)
          IN  cam' = [cam EXCEPT !.k = "has_ptz_support", !.arg = <<>>,
                                 !.was_open = cam.is_open, !.calls = calls,
                                 !.supported = supported,
                                 !.value = \A i \in 1..Len(calls) : calls[i].ok,
                                 !.threw = FALSE]
    /\ UNCHANGED <<mutex, pc, st, fr, log, pos, ctl, ncalls, hist, op, rp,
                   peer, presets, file, ret, cfg, cfgfile>>

(***************************** PresetManager ******************************)
\* In the preset store a double is counted in units of 10^-7 (2.5 is
\* 25000000), so that values with more than six significant digits exist.
\* A string is a tuple of characters.  The presets file is a sequence of
\* items: a character, or a number as operator<< printed it (its digits are
\* one item).
Unit == 10^7

Chars(cs) == [i \in 1..Len(cs) |-> Ch(cs[i])]

\* the characters of the names, in ascending order of their codes
Alphabet == <<"\"", "\\", "a", "b">>
Code(c) == CHOOSE i \in 1..Len(Alphabet) : Alphabet[i] = c

\* std::string operator< : lexicographic by character code
RECURSIVE StrLess(_, _)
StrLess(x, y) ==
    IF y = <<>> THEN FALSE
    ELSE IF x = <<>> THEN TRUE
    ELSE IF Code(Head(x)) # Code(Head(y)) THEN Code(Head(x)) < Code(Head(y))
    ELSE StrLess(Tail(x), Tail(y))

\* the keys in the iteration order of a map that compares with greater<>
RECURSIVE Descending(_)
Descending(names) ==
    IF names = {} THEN <<>>
    ELSE LET most == CHOOSE x \in names : \A y \in names \ {x} : StrLess(y, x)
         IN  <<most>> \o Descending(names \ {most})

\* the keys of a std::map<std::string, ...> in iteration order
RECURSIVE Sorted(_)
Sorted(names) ==
    IF names = {} THEN <<>>
    ELSE LET least == CHOOSE x \in names : \A y \in names \ {x} : StrLess(x, y)
         IN  <<least>> \o Sorted(names \ {least})

\* a PositionTracker with default bounds holding (pan, tilt, zoom)
Preset(p, t, z) ==
    [pan |-> p, tilt |-> t, zoom |-> z,
     pan_min |-> EST_PAN_MIN * (Unit \div 10), pan_max |-> EST_PAN_MAX * (Unit \div 10),
     tilt_min |-> EST_TILT_MIN * (Unit \div 10), tilt_max |-> EST_TILT_MAX * (Unit \div 10)]

\* out << double : six significant digits
Abs(v) == IF v < 0 THEN -v ELSE v
Digits6(v) ==
    LET a == Abs(v)
        u == IF a < 10^6 THEN 1 ELSE IF a < 10^7 THEN 10 ELSE IF a < 10^8 THEN 100
             ELSE IF a < 10^9 THEN 1000 ELSE 10000
        r == ((a + (u \div 2)) \div u) * u
    IN  IF v < 0 THEN -r ELSE r

PrintDouble(v) == DblItem(Digits6(v))

\* one preset as to_json writes it (presets.cpp 112-116)
EntryJson(name, p) ==
    Chars(<<" ", " ", "\"">>) \o Chars(name) \o Chars(<<"\"", ":", " ", "{", "\n">>)
    \o Chars(<<" ", " ", " ", " ", "\"", "p", "a", "n", "\"", ":", " ">>)
    \o <<PrintDouble(p.pan)>> \o Chars(<<",", "\n">>)
    \o Chars(<<" ", " ", " ", " ", "\"", "t", "i", "l", "t", "\"", ":", " ">>)
    \o <<PrintDouble(p.tilt)>> \o Chars(<<",", "\n">>)
    \o Chars(<<" ", " ", " ", " ", "\"", "z", "o", "o", "m", "\"", ":", " ">>)
    \o <<IntItem(p.zoom)>> \o Chars(<<"\n", " ", " ", "}">>)

RECURSIVE EntriesJson(_, _, _)
EntriesJson(m, names, first) ==
    IF names = <<>> THEN <<>>
    ELSE (IF first THEN <<>> ELSE Chars(<<",", "\n">>))
         \o EntryJson(Head(names), m[Head(names)])
         \o EntriesJson(m, Tail(names), FALSE)

\* PresetManager::to_json
to_json(m) ==
    Chars(<<"{", "\n">>) \o EntriesJson(m, Sorted(DOMAIN m), TRUE)
    \o Chars(<<"\n", "}", "\n">>)

IsCh(x, c) == x.t = "ch" /\ x.c = c
IsWs(x) == x.t = "ch" /\ x.c \in {" ", "\t", "\n", "\r"}

\* the lambda skip_ws of from_json: the first index from i on that holds no
\* white space
RECURSIVE skip_ws(_, _)
skip_ws(json_str, i) ==
    IF i <= Len(json_str) /\ IsWs(json_str[i]) THEN skip_ws(json_str, i + 1) ELSE i

\* the loop of read_quoted_string: a backslash is dropped and the character
\* after it is taken as it is; the end of the input closes the string
RECURSIVE ReadChars(_, _, _)
ReadChars(json_str, i, result) ==
    IF i <= Len(json_str) /\ ~IsCh(json_str[i], "\"")
    THEN LET k == IF IsCh(json_str[i], "\\") /\ i + 1 <= Len(json_str) THEN i + 1 ELSE i
         IN  ReadChars(json_str, k + 1, Append(result, json_str[k].c))
    ELSE [err |-> FALSE, i |-> IF i <= Len(json_str) THEN i + 1 ELSE i, s |-> result]

read_quoted_string(json_str, i) ==
    IF i > Len(json_str) \/ ~IsCh(json_str[i], "\"")
    THEN [err |-> TRUE, i |-> i, s |-> <<>>]
    ELSE ReadChars(json_str, i + 1, <<>>)

\* read_number: std::stod of the digits at i; it throws when there are none.
\* val is the number read, still as the item that holds it.
read_number(json_str, i) ==
    IF json_str[i].t = "ch"
    THEN [err |-> TRUE, i |-> i, val |-> json_str[i]]
    ELSE [err |-> FALSE, i |-> i + 1, val |-> json_str[i]]

\* the double read from a number item, in units of 10^-7
ToDouble(val) == IF val.t = "int" THEN val.n * Unit ELSE val.n

\* static_cast<int>(val): truncation toward zero
ToInt(val) ==
    IF val.t = "int" THEN val.n
    ELSE IF val.n < 0 THEN -((-val.n) \div Unit) ELSE val.n \div Unit

\* presets_[name] = p with map::insert in place of operator[]
PutIfAbsent(m, name, p) == [n \in DOMAIN m \cup {name} |-> IF n \in DOMAIN m THEN m[n] ELSE p]

\* presets_[name] = p
Put(m, name, p) == [n \in DOMAIN m \cup {name} |-> IF n = name THEN p ELSE m[n]]

ParserInit ==
    [state |-> "ROOT", current_preset |-> <<>>, current_field |-> <<>>,
     pan_val |-> 0, tilt_val |-> 0, zoom_val |-> ZOOM_DEFAULT, presets |-> NoPresets]

\* The main loop of from_json from index i0 in parser state z.  The outcome
\* is "ok" (the function returns), "error" (it throws) or "hang" (a case
\* leaves i and the state as they were, so the loop never ends).
RECURSIVE Parse(_, _, _)
Parse(json_str, i0, z) ==
    LET i == skip_ws(json_str, i0)
        c == json_str[i]
        ok == [k |-> "ok", presets |-> z.presets]
        error == [k |-> "error", presets |-> z.presets]
        hang == [k |-> "hang", presets |-> z.presets]
    IN
    IF i > Len(json_str) THEN ok
    ELSE CASE z.state = "ROOT" ->
                IF IsCh(c, "{") THEN Parse(json_str, i + 1, [z EXCEPT !.state = "PRESET_KEY"])
                ELSE error
           [] z.state = "PRESET_KEY" ->
                IF IsCh(c, "}") THEN ok
                ELSE LET r == read_quoted_string(json_str, i)
                     IN  IF r.err THEN error
                         ELSE Parse(json_str, r.i,
                                    [z EXCEPT !.current_preset = r.s, !.state = "COLON_1"])
           [] z.state = "COLON_1" ->
                IF IsCh(c, ":") THEN Parse(json_str, i + 1, [z EXCEPT !.state = "INNER_OPEN"])
                ELSE hang
           [] z.state = "INNER_OPEN" ->
                IF IsCh(c, "{")
                THEN Parse(json_str, i + 1,
                           [z EXCEPT !.pan_val = 0, !.tilt_val = 0,
                                     !.zoom_val = ZOOM_DEFAULT, !.state = "FIELD_KEY"])
                ELSE hang
           [] z.state = "FIELD_KEY" ->
                IF IsCh(c, "}")
                THEN Parse(json_str, i + 1,
                           [z EXCEPT !.presets = Put(@, z.current_preset,
                                                     Preset(z.pan_val, z.tilt_val, z.zoom_val)),
                                     !.state = "PRESET_SEP"])
                ELSE LET r == read_quoted_string(json_str, i)
                     IN  IF r.err THEN error
                         ELSE Parse(json_str, r.i,
                                    [z EXCEPT !.current_field = r.s, !.state = "COLON_2"])
           [] z.state = "COLON_2" ->
                IF IsCh(c, ":") THEN Parse(json_str, i + 1, [z EXCEPT !.state = "FIELD_VALUE"])
                ELSE hang
           [] z.state = "FIELD_VALUE" ->
                LET r == read_number(json_str, i)
                IN  IF r.err THEN error
                    ELSE Parse(json_str, r.i,
                           [z EXCEPT !.pan_val = IF z.current_field = <<"p", "a", "n">>
                                                 THEN ToDouble(r.val) ELSE @,
                                     !.tilt_val = IF z.current_field = <<"t", "i", "l", "t">>
                                                  THEN ToDouble(r.val) ELSE @,
                                     !.zoom_val = IF z.current_field = <<"z", "o", "o", "m">>
                                                  THEN ToInt(r.val) ELSE @,
                                     !.state = "FIELD_SEP"])
           [] z.state = "FIELD_SEP" ->
                IF IsCh(c, ",") THEN Parse(json_str, i + 1, [z EXCEPT !.state = "FIELD_KEY"])
                ELSE IF IsCh(c, "}") THEN Parse(json_str, i, [z EXCEPT !.state = "FIELD_KEY"])
                ELSE hang
           [] z.state = "PRESET_SEP" ->
                IF IsCh(c, ",") THEN Parse(json_str, i + 1, [z EXCEPT !.state = "PRESET_KEY"])
                ELSE IF IsCh(c, "}") THEN ok
                ELSE hang

\* PresetManager::from_json
from_json(json_str) == Parse(json_str, 1, ParserInit)

\* what PresetManager(path) holds after its constructor ran load() on the
\* file f: no file is an empty manager
Loaded(f) == IF f.exists THEN from_json(f.text) ELSE [k |-> "ok", presets |-> NoPresets]

\* The state of the PresetManager part: presets is the member presets_ of
\* the one manager alive, file is the file at its path, and ret records the
\* last call: its name, its argument, what it returned (value), presets_ as
\* the call found it (before), whether it threw, whether every save so far
\* wrote the file (clean) and whether a manager exists (obj).
motion == <<mutex, pc, st, fr, log, pos, ctl, ncalls, hist, op, rp, peer, cam, cfg, cfgfile>>

Names == {<<"a">>, <<"\\", "a">>, <<"\"">>}
Positions == {Preset(25 * (Unit \div 10), -Unit, 350), Preset(1234567, 0, ZOOM_DEFAULT)}

\* presets_.erase(it) that clears the whole map
EraseAll(m, name) == NoPresets

\* presets_.erase(it)
Erase(m, name) == [n \in DOMAIN m \ {name} |-> m[n]]

\* presets_.find(name) read with operator[], which makes up a default entry
FindOrDefault(m, name) ==
    [found |-> TRUE,
     second |-> IF name \in DOMAIN m THEN m[name] ELSE Preset(0, 0, ZOOM_DEFAULT)]

\* presets_.find(name)
Find(m, name) ==
    IF name \in DOMAIN m THEN [found |-> TRUE, second |-> m[name]]
    ELSE [found |-> FALSE, second |-> Preset(0, 0, ZOOM_DEFAULT)]

\* PresetManager::save of the map m over the file f: the file is replaced
\* by to_json(m), or it cannot be opened and save throws
save(m, f) ==
    {[threw |-> FALSE, file |-> [exists |-> TRUE, text |-> to_json(m)]],
     [threw |-> TRUE, file |-> f]}

\* PresetManager::PresetManager: load() of the file at the path
PresetManager_ctor ==
    LET r == Loaded(file)
    IN  /\ presets' = IF r.k = "ok" THEN r.presets ELSE NoPresets
        /\ ret' = [k |-> "PresetManager", name |-> <<>>, value |-> r.k,
                   before |-> NoPresets, threw |-> r.k = "error",
                   clean |-> ret.clean, obj |-> r.k = "ok"]
        /\ UNCHANGED <<file, motion>>

\* PresetManager::load on a live manager: without a file presets_ stays as
\* it is; otherwise from_json replaces it, and a throw leaves what was parsed
\* up to the error
PresetManager_load ==
    /\ ret.obj
    /\ LET r == Loaded(file)
       IN  /\ presets' = IF file.exists THEN r.presets ELSE presets
           /\ ret' = [k |-> "load", name |-> <<>>, value |-> r.k,
                      before |-> presets, threw |-> r.k = "error",
                      clean |-> ret.clean, obj |-> r.k # "hang"]
    /\ UNCHANGED <<file, motion>>

PresetManager_save_preset(name, position) ==
    /\ ret.obj
    /\ \E o \in save(Put(presets, name, position), file) :
          /\ presets' = Put(presets, name, position)
          /\ file' = o.file
          /\ ret' = [k |-> "save_preset", name |-> name, value |-> position,
                     before |-> presets, threw |-> o.threw,
                     clean |-> ret.clean /\ ~o.threw, obj |-> TRUE]
    /\ UNCHANGED motion

PresetManager_recall_preset(name) ==
    /\ ret.obj
    /\ ret' = [k |-> "recall_preset", name |-> name,
               value |-> IF Find(presets, name).found
                         THEN [has_value |-> TRUE, v |-> Find(presets, name).second]
                         ELSE [has_value |-> FALSE, v |-> Find(presets, name).second],
               before |-> presets, threw |-> FALSE, clean |-> ret.clean, obj |-> TRUE]
    /\ UNCHANGED <<presets, file, motion>>

PresetManager_delete_preset(name) ==
    /\ ret.obj
    /\ IF ~Find(presets, name).found
       THEN /\ ret' = [k |-> "delete_preset", name |-> name, value |-> FALSE,
                       before |-> presets, threw |-> FALSE, clean |-> ret.clean,
                       obj |-> TRUE]
            /\ UNCHANGED <<presets, file>>
       ELSE \E o \in save(Erase(presets, name), file) :
               /\ presets' = Erase(presets, name)
               /\ file' = o.file
               /\ ret' = [k |-> "delete_preset", name |-> name, value |-> ~o.threw,
                          before |-> presets, threw |-> o.threw,
                          clean |-> ret.clean /\ ~o.threw, obj |-> TRUE]
    /\ UNCHANGED motion

PresetManager_list_presets ==
    /\ ret.obj
    /\ ret' = [k |-> "list_presets", name |-> <<>>, value |-> Sorted(DOMAIN presets),
               before |-> presets, threw |-> FALSE, clean |-> ret.clean, obj |-> TRUE]
    /\ UNCHANGED <<presets, file, motion>>

(************************ Controller: presets and zoom ********************)
\* thread t is in no call of the Controller
Outside(t) == st[t] \in {"idle", "returned", "threw"} /\ rp[t] = 0

\* Controller::get_zoom: the value the device holds for ZOOM_ABSOLUTE
get_zoom == ctl[CTRL_ZOOM_ABSOLUTE]

\* the estimator as a preset holds it: the doubles in units of 10^-7
AsPreset(p) == Preset(p.pan * (Unit \div 10), p.tilt * (Unit \div 10), p.zoom)

\* Controller::recall_preset(name): presets_.recall_preset(name) at line 106;
\* without a preset it returns false at 108, with one it calls
\* motion_.zoom_absolute(pos->zoom) at 110 and returns true at 111
Controller_recall_preset(t, name) ==
    \/ /\ Outside(t)
       /\ cam.built /\ ret.obj
       /\ ncalls < MaxCalls
       /\ ncalls' = ncalls + 1
       /\ rp' = [rp EXCEPT ![t] = 106]
       /\ log' = [log EXCEPT ![t] = <<>>]
       /\ UNCHANGED <<mutex, pc, st, fr, pos, ctl, hist, op, aside>>
    \/ /\ rp[t] = 106
       /\ LET it == Find(presets, name)
          IN  /\ ret' = [k |-> "recall_preset", name |-> name,
                         value |-> [has_value |-> it.found, v |-> it.second],
                         before |-> presets, threw |-> FALSE, clean |-> ret.clean,
                         obj |-> TRUE]
              /\ IF it.found
                 THEN /\ rp' = [rp EXCEPT ![t] = 110]
                      /\ st' = [st EXCEPT ![t] = "running"]
                      /\ pc' = [pc EXCEPT ![t] = 77]
                      /\ fr' = [fr EXCEPT ![t] = [NoFrame EXCEPT !.api = "recall_preset",
                                                                !.value = it.second.zoom]]
                      /\ log' = [log EXCEPT ![t] = <<>>]
                      /\ cam' = cam
                 ELSE /\ cam' = [cam EXCEPT !.k = "recall_preset", !.arg = name,
                                            !.was_open = cam.is_open, !.calls = <<>>,
                                            !.value = FALSE, !.threw = FALSE]
                      /\ st' = [st EXCEPT ![t] = "returned"]
                      /\ rp' = [rp EXCEPT ![t] = 0]
                      /\ UNCHANGED <<pc, fr, log>>
       /\ UNCHANGED <<mutex, pos, ctl, ncalls, hist, op, peer, presets, file, cfg, cfgfile>>
    \/ /\ rp[t] = 111
       /\ st[t] = "returned"
       /\ cam' = [cam EXCEPT !.k = "recall_preset", !.arg = ret.name,
                             !.was_open = cam.is_open, !.calls = <<>>,
                             !.value = TRUE, !.threw = FALSE]
       /\ rp' = [rp EXCEPT ![t] = 0]
       /\ log' = [log EXCEPT ![t] = <<>>]
       /\ UNCHANGED <<mutex, pc, st, fr, pos, ctl, ncalls, hist, op, peer, presets, file,
                      ret, cfg, cfgfile>>

\* Controller::save_preset(name): presets_.save_preset(name, position_) at
\* line 102.  position_ is read without the motion lock while presets.cpp 67
\* copies it member by member (pan, tilt, zoom), so the copy is taken in
\* three steps; then save() writes the file or throws.
Controller_save_preset(t, name) ==
    \/ /\ Outside(t)
       /\ cam.built /\ ret.obj
       /\ rp' = [rp EXCEPT ![t] = 102]
       /\ fr' = [fr EXCEPT ![t] = [NoFrame EXCEPT !.api = "save_preset:pan",
                                                 !.pos0 = [PositionTracker EXCEPT
                                                              !.pan = pos.pan]]]
       /\ log' = [log EXCEPT ![t] = <<>>]
       /\ UNCHANGED <<mutex, pc, st, pos, ctl, ncalls, hist, op, aside>>
    \/ /\ rp[t] = 102 /\ fr[t].api = "save_preset:pan"
       /\ fr' = [fr EXCEPT ![t] = [@ EXCEPT !.api = "save_preset:tilt",
                                           !.pos0 = [@ EXCEPT !.tilt = pos.tilt]]]
       /\ UNCHANGED <<mutex, pc, st, log, pos, ctl, ncalls, hist, op, rp, aside>>
    \/ /\ rp[t] = 102 /\ fr[t].api = "save_preset:tilt"
       /\ fr' = [fr EXCEPT ![t] = [@ EXCEPT !.api = "save_preset:zoom",
                                           !.pos0 = [@ EXCEPT !.zoom = pos.zoom]]]
       /\ UNCHANGED <<mutex, pc, st, log, pos, ctl, ncalls, hist, op, rp, aside>>
    \/ /\ rp[t] = 102 /\ fr[t].api = "save_preset:zoom"
       /\ LET position == AsPreset(fr[t].pos0)
          IN  \E o \in save(Put(presets, name, position), file) :
                 /\ presets' = Put(presets, name, position)
                 /\ file' = o.file
                 /\ ret' = [k |-> "save_preset", name |-> name, value |-> position,
                            before |-> presets, threw |-> o.threw,
                            clean |-> ret.clean /\ ~o.threw, obj |-> TRUE]
                 /\ st' = [st EXCEPT ![t] = IF o.threw THEN "threw" ELSE "returned"]
       /\ rp' = [rp EXCEPT ![t] = 0]
       /\ fr' = [fr EXCEPT ![t] = NoFrame]
       /\ UNCHANGED <<mutex, pc, log, pos, ctl, ncalls, hist, op, peer, cam, cfg, cfgfile>>

\* the names the clients of the Controller use
CamNames == {<<"a">>, <<"b">>}

(********************************* Config *********************************)
\* A string is a tuple of items: single characters, a run of letters taken
\* as one item (Word), and the decimal digits of an int (to_string).
to_string(n) == <<IntItem(n)>>

KEY_DEVICE     == Word("DEVICE")
KEY_PAN_SPEED  == Word("PAN_SPEED")
KEY_TILT_SPEED == Word("TILT_SPEED")
KEY_ZOOM_STEP  == Word("ZOOM_STEP")

\* the keys of data_ in the order of the std::map
ConfigKeys == <<KEY_DEVICE, KEY_PAN_SPEED, KEY_TILT_SPEED, KEY_ZOOM_STEP>>
Recognized == {ConfigKeys[i] : i \in 1..Len(ConfigKeys)}

\* Config::set_defaults
set_defaults ==
    [key \in Recognized |->
        IF key = KEY_DEVICE THEN Word(DEFAULT_DEVICE)
        ELSE IF key = KEY_PAN_SPEED THEN to_string(DEFAULT_PAN_SPEED)
        ELSE IF key = KEY_TILT_SPEED THEN to_string(DEFAULT_TILT_SPEED)
        ELSE to_string(DEFAULT_ZOOM_STEP)]

RECURSIVE TrimLeft(_)
TrimLeft(s) == IF s # <<>> /\ IsWs(Head(s)) THEN TrimLeft(Tail(s)) ELSE s

RECURSIVE TrimRight(_)
TrimRight(s) ==
    IF s # <<>> /\ IsWs(s[Len(s)]) THEN TrimRight(SubSeq(s, 1, Len(s) - 1)) ELSE s

\* trim of config.cpp: without the white space at both ends
trim(s) == TrimRight(TrimLeft(s))

\* s.find(c): the first index of the character, 0 for npos
IndexOf(s, c) ==
    IF \E i \in 1..Len(s) : IsCh(s[i], c)
    THEN CHOOSE i \in 1..Len(s) : IsCh(s[i], c) /\ \A j \in 1..(i - 1) : ~IsCh(s[j], c)
    ELSE 0

\* the lines std::getline reads from the text
RECURSIVE Lines(_)
Lines(text) ==
    IF text = <<>> THEN <<>>
    ELSE LET n == IndexOf(text, "\n")
         IN  IF n = 0 THEN <<text>>
             ELSE <<SubSeq(text, 1, n - 1)>> \o Lines(SubSeq(text, n + 1, Len(text)))

\* the body of the loop of Config::load for one line
LoadLine(data, raw) ==
    LET line == trim(raw)
        eq_pos == IndexOf(line, "=")
        key == trim(SubSeq(line, 1, eq_pos - 1))
        value == trim(SubSeq(line, eq_pos + 1, Len(line)))
    IN  IF line = <<>> \/ IsCh(line[1], "#") THEN data
        ELSE IF eq_pos = 0 THEN data
        ELSE IF key \in DOMAIN data THEN [data EXCEPT ![key] = value]
        ELSE data

RECURSIVE LoadLines(_, _)
LoadLines(data, lines) ==
    IF lines = <<>> THEN data ELSE LoadLines(LoadLine(data, Head(lines)), Tail(lines))

\* Config::load into data_ = data from the file f
ConfigLoad(data, f) == IF f.exists THEN LoadLines(data, Lines(f.text)) ELSE data

\* the text Config::save writes
RECURSIVE ConfigText(_, _)
ConfigText(data, keys) ==
    IF keys = <<>> THEN <<>>
    ELSE Head(keys) \o <<Ch("=")>> \o data[Head(keys)] \o <<Ch("\n")>>
         \o ConfigText(data, Tail(keys))

\* std::stoi(value) with the catch of the typed accessors
stoi_or(value, default) ==
    LET v == TrimLeft(value)
    IN  IF v # <<>> /\ Head(v).t = "int" THEN Head(v).n ELSE default

device(data)     == data[KEY_DEVICE]
pan_speed(data)  == stoi_or(data[KEY_PAN_SPEED], DEFAULT_PAN_SPEED)
tilt_speed(data) == stoi_or(data[KEY_TILT_SPEED], DEFAULT_TILT_SPEED)
zoom_step(data)  == stoi_or(data[KEY_ZOOM_STEP], DEFAULT_ZOOM_STEP)

\* what a Config constructed on the path of f holds after load()
FreshConfig(f) == ConfigLoad(set_defaults, f)

\* the state outside Config
outside == <<mutex, pc, st, fr, log, pos, ctl, ncalls, hist, op, rp,
            peer, presets, file, ret, cam>>

\* Config::Config
Config_ctor ==
    /\ cfg' = [k |-> "Config", data |-> set_defaults]
    /\ UNCHANGED <<cfgfile, outside>>

Config_load ==
    /\ cfg.k # "none"
    /\ cfg' = [k |-> "load", data |-> ConfigLoad(cfg.data, cfgfile)]
    /\ UNCHANGED <<cfgfile, outside>>

\* Config::save: writes the file, or returns without a word when the file
\* cannot be opened
Config_save ==
    /\ cfg.k # "none"
    /\ \/ /\ cfgfile' = [exists |-> TRUE, text |-> ConfigText(cfg.data, ConfigKeys)]
          /\ cfg' = [k |-> "save", data |-> cfg.data]
       \/ /\ cfgfile' = cfgfile
          /\ cfg' = [k |-> "save_failed", data |-> cfg.data]
    /\ UNCHANGED outside

\* Config::set(key, value) for a key of data_, which set_device,
\* set_pan_speed, set_tilt_speed and set_zoom_step call with to_string
Config_set(key, value) ==
    /\ cfg.k # "none"
    /\ cfg' = [k |-> "set", data |-> [cfg.data EXCEPT ![key] = value]]
    /\ UNCHANGED <<cfgfile, outside>>

\* values handed to the setters
DeviceValues == {Word("/dev/video1"), <<Ch(" ")>> \o Word("/dev/video1"), <<>>}
SpeedValues == {-1}

\* configuration files as a user writes them
UserFiles ==
    {NoFile,
     [exists |-> TRUE,
      text |-> <<Ch("#"), Ch(" "), Ch("x"), Ch("\n"), Ch("\n"), Ch(" "), Ch("\n")>>
               \o KEY_DEVICE \o <<Ch("=")>> \o Word("/dev/video2") \o <<Ch("\n")>>
               \o Word("COLOR") \o <<Ch("=")>> \o Word("red") \o <<Ch("\n")>>
               \o <<Ch(" ")>> \o KEY_PAN_SPEED \o <<Ch(" "), Ch("="), Ch(" ")>>
               \o to_string(2) \o <<Ch(" "), Ch("\n")>>
               \o <<Ch("#")>> \o KEY_TILT_SPEED \o <<Ch("=")>> \o to_string(2)],
     [exists |-> TRUE,
      text |-> KEY_DEVICE \o <<Ch("="), Ch("\n")>>
               \o KEY_ZOOM_STEP \o <<Ch("=")>> \o Word("fast") \o <<Ch("\n")>>]}

(************************** Controller construction ***********************)
\* the path chosen at controller.cpp 20 with the Config asked first
resolve_config_first(device_path, data) ==
    IF device(data) # Word(DEFAULT_DEVICE) THEN device(data)
    ELSE IF device_path = <<>> THEN device(data) ELSE device_path

\* device_path.empty() ? config_.device() : device_path
resolve(device_path, data) == IF device_path = <<>> THEN device(data) ELSE device_path

\* IV4L2Device::open(path) on the device d = [is_open, open_path]: it opens
\* the path (closing what was open, v4l2_device.cpp 41-43) or throws
\* V4L2Error, in which case nothing is open
OpenOutcomes(path) ==
    {[threw |-> FALSE, is_open |-> TRUE, open_path |-> path],
     [threw |-> TRUE, is_open |-> FALSE, open_path |-> <<>>]}

\* Controller::Controller with an injected device: the members are
\* constructed (the Config with its defaults, the PresetManager by loading
\* its file), then the body loads the Config, resolves the path and opens
\* the device unless it is open
Controller_ctor(device_path) ==
    /\ ~cam.built
    /\ Loaded(file).k = "ok"
    /\ presets' = Loaded(file).presets
    /\ LET data == ConfigLoad(set_defaults, cfgfile)
           path == resolve(device_path, data)
       IN  /\ cfg' = [k |-> "load", data |-> data]
           /\ IF cam.is_open
              THEN cam' = [cam EXCEPT !.k = "Controller", !.arg = device_path,
                                      !.was_open = TRUE, !.calls = <<>>,
                                      !.threw = FALSE, !.built = TRUE,
                                      !.device_path_ = path]
              ELSE \E o \in OpenOutcomes(path) :
                      cam' = [cam EXCEPT !.k = "Controller", !.arg = device_path,
                                         !.was_open = FALSE,
                                         !.calls = <<[fn |-> "open", path |-> path]>>,
                                         !.threw = o.threw, !.built = ~o.threw,
                                         !.is_open = o.is_open, !.open_path = o.open_path,
                                         !.device_path_ = IF o.threw THEN <<>> ELSE path]
    /\ UNCHANGED <<mutex, pc, st, fr, log, pos, ctl, ncalls, hist, op, rp, peer,
                   file, ret, cfgfile>>

\* Controller::set_device_path
set_device_path(path) ==
    /\ cam.built
    /\ \E o \in OpenOutcomes(path) :
          cam' = [cam EXCEPT !.k = "set_device_path", !.arg = path,
                             !.was_open = cam.is_open,
                             !.calls = (IF cam.is_open THEN <<[fn |-> "close", path |-> <<>>]>>
                                        ELSE <<>>) \o <<[fn |-> "open", path |-> path]>>,
                             !.threw = o.threw, !.is_open = o.is_open,
                             !.open_path = o.open_path, !.device_path_ = path]
    /\ UNCHANGED <<mutex, pc, st, fr, log, pos, ctl, ncalls, hist, op, rp, peer,
                   presets, file, ret, cfg, cfgfile>>

\* the arguments device_path of the constructor and of set_device_path
DevicePaths == {<<>>, Word("/dev/video3")}

(***************************** specifications *****************************)
Init ==
    /\ mutex = 0
    /\ pc = [t \in Threads |-> 0]
    /\ st = [t \in Threads |-> "idle"]
    /\ fr = [t \in Threads |-> NoFrame]
    /\ log = [t \in Threads |-> <<>>]
    /\ pos = PositionTracker
    /\ ctl = NoControls
    /\ ncalls = 0
    /\ hist = <<>>
    /\ op = "none"
    /\ rp = [t \in Threads |-> 0]
    /\ AsideInit

Next ==
    \E t \in Threads :
        \/ pan(t)
        \/ tilt(t)
        \/ pan_left(t)
        \/ pan_right(t)
        \/ tilt_up(t)
        \/ tilt_down(t)
        \/ zoom_in(t)
        \/ zoom_out(t)
        \/ combined_move(t)
        \/ combined_move_with_zoom(t)
        \/ zoom_absolute(t)
        \/ zoom_relative(t)
        \/ stop(t)
        \/ Unwind(t)

Spec == Init /\ [][Next]_vars

\* The steps of thread t inside a call it has started.  A fair scheduler
\* lets a thread that can step do so, and a fair mutex hands the lock to a
\* thread that keeps asking for it: the steps of every thread, the
\* acquisition of the lock among them, are strongly fair.
Continue(t) ==
    /\ st[t] \in {"running", "throwing"}
    /\ \/ pan(t)
       \/ tilt(t)
       \/ combined_move(t)
       \/ combined_move_with_zoom(t)
       \/ zoom_absolute(t)
       \/ zoom_relative(t)
       \/ stop(t)
       \/ Unwind(t)

\* the operations of MotionController, called by every thread
NextMotion ==
    \E t \in Threads :
        \/ pan(t)
        \/ tilt(t)
        \/ combined_move(t)
        \/ combined_move_with_zoom(t)
        \/ zoom_absolute(t)
        \/ zoom_relative(t)
        \/ stop(t)
        \/ Unwind(t)

SpecFair == Init /\ [][NextMotion]_vars /\ \A t \in Threads : SF_vars(Continue(t))

\* one thread using the Controller, reset_position included
NextOne ==
    \E t \in {1} :
        \/ pan(t)
        \/ tilt(t)
        \/ zoom_absolute(t)
        \/ zoom_relative(t)
        \/ stop(t)
        \/ reset_position(t)
        \/ Unwind(t)

SpecOne == Init /\ [][NextOne]_vars

\* threads using one Controller concurrently, reset_position included
NextReset ==
    \E t \in Threads :
        \/ pan(t)
        \/ tilt(t)
        \/ zoom_absolute(t)
        \/ reset_position(t)
        \/ Unwind(t)

SpecReset == Init /\ [][NextReset]_vars

\* two MotionControllers: thread 1 on the first, the others on the second
NextTwo ==
    \/ \E t \in {1} : pan(t) \/ Unwind(t)
    \/ \E t \in Threads \ {1} : peer_pan(t)

SpecTwo == Init /\ [][NextTwo]_vars

(******************** PositionTracker used on its own ********************)
\* A client constructs a PositionTracker, sets the public bound fields
\* (pan_min <= pan_max, tilt_min <= tilt_max) and applies the mutating
\* operations in any order.
\* One PresetManager at a time on one path, constructed with the file missing;
\* a new manager on the same path may replace it at any moment.
NextPresets ==
    \/ PresetManager_ctor
    \/ PresetManager_load
    \/ \E name \in Names, position \in Positions : PresetManager_save_preset(name, position)
    \/ \E name \in Names : PresetManager_recall_preset(name)
    \/ \E name \in Names : PresetManager_delete_preset(name)
    \/ PresetManager_list_presets

SpecPresets == Init /\ [][NextPresets]_vars

\* Contents of the presets file that deviate from what to_json writes for
\* one preset: the text cut short, one of its characters or numbers left
\* out, a number replaced by a word, and text after the closing brace.
GoodText == to_json(Put(NoPresets, <<"a">>, Preset(25 * (Unit \div 10), -Unit, 350)))

Drop(text, i) == SubSeq(text, 1, i - 1) \o SubSeq(text, i + 1, Len(text))

Truncated == {SubSeq(GoodText, 1, n) : n \in 0..(Len(GoodText) - 2)}

\* every item but white space and the character of the name
Missing ==
    {Drop(GoodText, i) : i \in {j \in 1..Len(GoodText) :
                                   ~IsWs(GoodText[j]) /\ ~IsCh(GoodText[j], "a")}
                               \cup {j \in 1..Len(GoodText) :
                                        IsCh(GoodText[j], "a") /\ IsCh(GoodText[j - 1], "p")}}

NonNumeric ==
    {[GoodText EXCEPT ![i] = Ch("x")] : i \in {j \in 1..Len(GoodText) : GoodText[j].t # "ch"}}

Trailing == {GoodText \o Chars(<<"x">>), GoodText \o GoodText}

Deviating == Truncated \cup Missing \cup NonNumeric \cup Trailing

\* A manager constructed while the file was missing; the file then has some
\* content, well formed or not, and the manager or a new one loads it.
InitLoad ==
    /\ mutex = 0
    /\ pc = [t \in Threads |-> 0]
    /\ st = [t \in Threads |-> "idle"]
    /\ fr = [t \in Threads |-> NoFrame]
    /\ log = [t \in Threads |-> <<>>]
    /\ pos = PositionTracker
    /\ ctl = NoControls
    /\ ncalls = 0
    /\ hist = <<>>
    /\ op = "none"
    /\ rp = [t \in Threads |-> 0]
    /\ peer = NoPeer
    /\ presets = NoPresets
    /\ file \in {[exists |-> TRUE, text |-> text] : text \in Deviating \cup {GoodText}}
    /\ ret = NoRet
    /\ cam = NoCam
    /\ cfg = NoCfg
    /\ cfgfile = NoFile

NextLoad ==
    \/ PresetManager_ctor
    \/ PresetManager_load
    \/ \E name \in Names : PresetManager_recall_preset(name)
    \/ PresetManager_list_presets

SpecLoad == InitLoad /\ [][NextLoad]_vars

\* One thread using the Controller for moves and for has_ptz_support.
NextInfo ==
    \E t \in {1} :
        \/ pan(t)
        \/ stop(t)
        \/ Unwind(t)
        \/ has_ptz_support(t)

SpecInfo == Init /\ [][NextInfo]_vars

\* One thread using a Controller whose presets file a user has written: the
\* zoom of preset "a" lies above the zoom range.  The device is the one of
\* tests/mock_v4l2_device.hpp: it stores what is written.
CamFile ==
    [exists |-> TRUE,
     text |-> to_json(Put(NoPresets, <<"a">>, Preset(25 * (Unit \div 10), -Unit, 9999)))]

InitCam ==
    /\ mutex = 0
    /\ pc = [t \in Threads |-> 0]
    /\ st = [t \in Threads |-> "idle"]
    /\ fr = [t \in Threads |-> NoFrame]
    /\ log = [t \in Threads |-> <<>>]
    /\ pos = PositionTracker
    /\ ctl = NoControls
    /\ ncalls = 0
    /\ hist = <<>>
    /\ op = "none"
    /\ rp = [t \in Threads |-> 0]
    /\ peer = NoPeer
    /\ file = CamFile
    /\ presets = Loaded(file).presets
    /\ ret = NoRet
    /\ cam = NoCam
    /\ cfg = NoCfg
    /\ cfgfile = NoFile

NextCam ==
    \E t \in {1} :
        \/ pan(t)
        \/ tilt(t)
        \/ zoom_in(t)
        \/ zoom_out(t)
        \/ zoom_relative(t)
        \/ zoom_absolute(t)
        \/ combined_move_with_zoom(t)
        \/ reset_position(t)
        \/ \E name \in CamNames : Controller_recall_preset(t, name)
        \/ Unwind(t)

SpecCam == InitCam /\ [][NextCam]_vars

\* Thread 1 moves the camera through the Controller while another thread
\* saves one preset on it.
NextSnap ==
    \/ \E t \in {1} : combined_move(t) \/ Unwind(t)
    \/ \E t \in Threads \ {1} : \E name \in {<<"b">>} :
          /\ rp[t] = 0 => ret.k = "none"
          /\ Controller_save_preset(t, name)

SpecSnap == Init /\ [][NextSnap]_vars

\* One thread using the named moves of the Controller next to pan and tilt.
NextNamed ==
    \E t \in {1} :
        \/ pan_left(t)
        \/ pan_right(t)
        \/ tilt_up(t)
        \/ tilt_down(t)
        \/ pan(t)
        \/ tilt(t)
        \/ Unwind(t)

SpecNamed == Init /\ [][NextNamed]_vars

\* A Config on a path whose file a user may have written; it is loaded,
\* changed through the setters and saved, and new Configs are constructed
\* on the same path.
SetArgs ==
    {<<KEY_DEVICE, value>> : value \in DeviceValues}
    \cup {<<KEY_PAN_SPEED, to_string(n)>> : n \in SpeedValues}

InitConfig ==
    /\ mutex = 0
    /\ pc = [t \in Threads |-> 0]
    /\ st = [t \in Threads |-> "idle"]
    /\ fr = [t \in Threads |-> NoFrame]
    /\ log = [t \in Threads |-> <<>>]
    /\ pos = PositionTracker
    /\ ctl = NoControls
    /\ ncalls = 0
    /\ hist = <<>>
    /\ op = "none"
    /\ rp = [t \in Threads |-> 0]
    /\ peer = NoPeer
    /\ presets = NoPresets
    /\ file = NoFile
    /\ ret = NoRet
    /\ cam = NoCam
    /\ cfg = [k |-> "Config", data |-> set_defaults]
    /\ cfgfile \in UserFiles

NextConfig ==
    \/ Config_ctor
    \/ Config_load
    \/ Config_save
    \/ \E a \in SetArgs : Config_set(a[1], a[2])

SpecConfig == InitConfig /\ [][NextConfig]_vars

\* An injected device, open or closed, and a configuration file; a
\* Controller is constructed on them and then used.
InitCtor ==
    /\ mutex = 0
    /\ pc = [t \in Threads |-> 0]
    /\ st = [t \in Threads |-> "idle"]
    /\ fr = [t \in Threads |-> NoFrame]
    /\ log = [t \in Threads |-> <<>>]
    /\ pos = PositionTracker
    /\ ctl = NoControls
    /\ ncalls = 0
    /\ hist = <<>>
    /\ op = "none"
    /\ rp = [t \in Threads |-> 0]
    /\ peer = NoPeer
    /\ presets = NoPresets
    /\ file = NoFile
    /\ ret = NoRet
    /\ cfg = NoCfg
    /\ cfgfile \in UserFiles
    /\ \E was_open \in BOOLEAN :
          cam = [NoCam EXCEPT !.built = FALSE, !.is_open = was_open,
                              !.open_path = IF was_open THEN Word("/dev/video9") ELSE <<>>,
                              !.device_path_ = <<>>]

NextCtor ==
    \/ \E device_path \in DevicePaths : Controller_ctor(device_path)
    \/ \E path \in DevicePaths : set_device_path(path)
    \/ \E t \in {1} : has_ptz_support(t)

SpecCtor == InitCtor /\ [][NextCtor]_vars

\* A client's PositionTracker with the calls recorded: op is the last call,
\* its arguments, its result and the tracker as the call found it.
MoveSpeeds == {-1, 1}
MoveDurations == {20, 1000}
Others ==
    {[FreshTracker(pb[1], pb[2], EST_TILT_MIN, EST_TILT_MAX)
        EXCEPT !.pan = p, !.tilt = t, !.zoom = z] :
        pb \in {<<EST_PAN_MIN, EST_PAN_MAX>>, <<10, 50>>},
        p \in {10, 50}, t \in {0, -20}, z \in {ZOOM_MIN, ZOOM_MAX}}

Called(name, speed, duration, other, value, newpos) ==
    /\ pos' = newpos
    /\ op' = [name |-> name, speed |-> speed, duration |-> duration, other |-> other,
              value |-> value, before |-> pos]
    /\ UNCHANGED <<mutex, pc, st, fr, log, ctl, ncalls, hist, rp, aside>>

PositionTracker_update_pan ==
    \E speed \in MoveSpeeds, duration \in MoveDurations :
        Called("update_pan", speed, duration, pos, 0, update_pan(pos, speed, duration))

PositionTracker_update_tilt ==
    \E speed \in MoveSpeeds, duration \in MoveDurations :
        Called("update_tilt", speed, duration, pos, 0, update_tilt(pos, speed, duration))

PositionTracker_update_zoom ==
    \E value \in Zooms : Called("update_zoom", 0, 0, pos, value, update_zoom(pos, value))

PositionTracker_distance_to ==
    \E other \in Others : Called("distance_to", 0, 0, other, distance_to(pos, other), pos)

InitTrack ==
    /\ mutex = 0
    /\ pc = [t \in Threads |-> 0]
    /\ st = [t \in Threads |-> "idle"]
    /\ fr = [t \in Threads |-> NoFrame]
    /\ log = [t \in Threads |-> <<>>]
    /\ \E pb \in {<<EST_PAN_MIN, EST_PAN_MAX>>, <<10, 50>>} :
           pos = FreshTracker(pb[1], pb[2], EST_TILT_MIN, EST_TILT_MAX)
    /\ ctl = NoControls
    /\ ncalls = 0
    /\ hist = <<>>
    /\ op = [name |-> "none", speed |-> 0, duration |-> 0, other |-> pos,
             value |-> 0, before |-> pos]
    /\ rp = [t \in Threads |-> 0]
    /\ AsideInit

NextTrack ==
    \/ PositionTracker_update_pan
    \/ PositionTracker_update_tilt
    \/ PositionTracker_update_zoom
    \/ PositionTracker_distance_to

SpecTrack == InitTrack /\ [][NextTrack]_vars

PanBounds == {<<EST_PAN_MIN, EST_PAN_MAX>>, <<10, 50>>, <<-50, -10>>, <<20, 20>>}
TiltBounds == {<<EST_TILT_MIN, EST_TILT_MAX>>, <<5, 30>>}
TrackerSpeeds == {-3, 0, 1}

Applied(name, newpos) ==
    /\ pos' = newpos
    /\ op' = name
    /\ UNCHANGED <<mutex, pc, st, fr, log, ctl, ncalls, hist, rp, aside>>

tracker_update_pan ==
    \E speed \in TrackerSpeeds, duration \in Durs :
        Applied("update_pan", update_pan(pos, speed, duration))

tracker_update_tilt ==
    \E speed \in TrackerSpeeds, duration \in Durs :
        Applied("update_tilt", update_tilt(pos, speed, duration))

tracker_update_zoom ==
    \E value \in Zooms : Applied("update_zoom", update_zoom(pos, value))

tracker_reset == Applied("reset", reset(pos))

InitPos ==
    /\ mutex = 0
    /\ pc = [t \in Threads |-> 0]
    /\ st = [t \in Threads |-> "idle"]
    /\ fr = [t \in Threads |-> NoFrame]
    /\ log = [t \in Threads |-> <<>>]
    /\ \E pb \in PanBounds, tb \in TiltBounds :
           pos = FreshTracker(pb[1], pb[2], tb[1], tb[2])
    /\ ctl = NoControls
    /\ ncalls = 0
    /\ hist = <<>>
    /\ op = "none"
    /\ rp = [t \in Threads |-> 0]
    /\ AsideInit

NextPos ==
    \/ tracker_update_pan
    \/ tracker_update_tilt
    \/ tracker_update_zoom
    \/ tracker_reset

SpecPos == InitPos /\ [][NextPos]_vars

(******************************* properties ******************************)
\* what the properties expect, spelled without the functions of the code
Clip(v, lo, hi) == IF v < lo THEN lo ELSE IF v > hi THEN hi ELSE v
Speed(direction) == Clip(direction, -1, 1)
Zoom(value) == Clip(value, 100, 500)
Moved(x, lo, hi, speed, duration) == Clip(x + speed * duration, lo, hi)
PanAfter(p, speed, duration) ==
    [p EXCEPT !.pan = Moved(p.pan, p.pan_min, p.pan_max, speed, duration)]
TiltAfter(p, speed, duration) ==
    [p EXCEPT !.tilt = Moved(p.tilt, p.tilt_min, p.tilt_max, speed, duration)]
ZoomAfter(p, value) == [p EXCEPT !.zoom = value]

HasSet(l) == \E i \in 1..Len(l) : l[i].k = "set"
Quiescent == \A t \in Threads : st[t] \in {"idle", "returned", "threw"}

\* C1: the device commands of two concurrent calls on one MotionController
\* never interleave: while a call that has issued a command is still running,
\* no other thread has got past its lock; in particular a stop() that arrives
\* while pan() waits has issued nothing as long as pan() has not returned.
C1_NoInterleaving ==
    \A t \in Threads : \A u \in Threads \ {t} :
        /\ HasSet(log[t]) => log[u] = <<>>
        /\ (pc[t] \in {27, 29, 30, 31} /\ pc[u] \in {90, 91, 92, 93}) => log[u] = <<>>
        /\ log[t] # <<>> => mutex = t

\* C1 witness: pan() is in its wait and another thread stands at stop()'s lock
C1_StopWaitsForPan ==
    \E t \in Threads : \E u \in Threads \ {t} :
        /\ At(t, 27) /\ fr[t].api = "pan" /\ HasSet(log[t])
        /\ At(u, 90) /\ ctl[CTRL_PAN_SPEED] # 0

\* C2: pan issues PAN_SPEED = clamp(direction), waits, issues PAN_SPEED = 0
\* and only then adds clamp(direction) * duration to the estimator's pan; it
\* touches no other control and leaves the speed control at 0.  tilt likewise.
C2_PanTiltSequence ==
    \A t \in Threads :
        /\ (st[t] = "running" /\ pc[t] \in {26, 27, 29, 30, 36, 37, 39, 40})
               => pos = fr[t].pos0
        /\ At(t, 31) =>
              LET s == Speed(fr[t].pan_dir)
                  d == fr[t].duration
              IN  /\ log[t] = <<EvLock, EvSet(CTRL_PAN_SPEED, s), EvSleep(d),
                                EvSet(CTRL_PAN_SPEED, 0), EvUpdatePan(s, d)>>
                  /\ pos = PanAfter(fr[t].pos0, s, d)
                  /\ ctl[CTRL_PAN_SPEED] = 0
        /\ At(t, 41) =>
              LET s == Speed(fr[t].tilt_dir)
                  d == fr[t].duration
              IN  /\ log[t] = <<EvLock, EvSet(CTRL_TILT_SPEED, s), EvSleep(d),
                                EvSet(CTRL_TILT_SPEED, 0), EvUpdateTilt(s, d)>>
                  /\ pos = TiltAfter(fr[t].pos0, s, d)
                  /\ ctl[CTRL_TILT_SPEED] = 0

\* C2 witness: a pan with direction -2 for 4 s has completed: the estimator
\* moved by -1 * 4 s
C2_PanDone ==
    \E t \in Threads :
        /\ At(t, 31) /\ fr[t].api = "pan"
        /\ fr[t].pan_dir = -2 /\ fr[t].duration = 40
        /\ fr[t].pos0.pan = 0 /\ pos.pan = -40

\* C3: combined_move issues exactly four commands under one lock acquisition,
\* PAN_SPEED = clamp(pan_dir), TILT_SPEED = clamp(tilt_dir), the wait,
\* PAN_SPEED = 0, TILT_SPEED = 0, and then updates both estimator axes.
C3_CombinedMoveSequence ==
    \A t \in Threads :
        /\ (st[t] = "running" /\ pc[t] \in {47, 48, 49, 51, 52, 53})
               => pos = fr[t].pos0
        /\ At(t, 55) =>
              LET sp == Speed(fr[t].pan_dir)
                  sl == Speed(fr[t].tilt_dir)
                  d  == fr[t].duration
              IN  /\ log[t] = <<EvLock, EvSet(CTRL_PAN_SPEED, sp),
                                EvSet(CTRL_TILT_SPEED, sl), EvSleep(d),
                                EvSet(CTRL_PAN_SPEED, 0), EvSet(CTRL_TILT_SPEED, 0),
                                EvUpdatePan(sp, d), EvUpdateTilt(sl, d)>>
                  /\ pos = TiltAfter(PanAfter(fr[t].pos0, sp, d), sl, d)
                  /\ mutex = t

\* C3 witness: a combined move (1, -2) for 4 s has completed; the tilt
\* saturated at its lower bound
C3_CombinedMoveDone ==
    \E t \in Threads :
        /\ At(t, 55) /\ fr[t].pan_dir = 1 /\ fr[t].tilt_dir = -2
        /\ fr[t].duration = 40
        /\ fr[t].pos0.pan = 0 /\ pos.pan = 40 /\ pos.tilt = EST_TILT_MIN

\* C4: combined_move_with_zoom issues PAN_SPEED, TILT_SPEED,
\* ZOOM_ABSOLUTE = clamp(zoom_target, 100, 500), then waits, then issues
\* PAN_SPEED = 0 and TILT_SPEED = 0; the zoom is written once, before the wait,
\* and the estimator's zoom is set to the clamped target after both stops.
C4_MoveWithZoomSequence ==
    \A t \in Threads :
        /\ (st[t] = "running" /\ pc[t] \in {63, 64, 65, 66, 68, 69, 70})
               => pos = fr[t].pos0
        /\ (st[t] = "running" /\ pc[t] \in {71, 72})
               => pos.zoom = fr[t].pos0.zoom
        /\ At(t, 73) =>
              LET sp == Speed(fr[t].pan_dir)
                  sl == Speed(fr[t].tilt_dir)
                  z  == Zoom(fr[t].value)
                  d  == fr[t].duration
              IN  /\ log[t] = <<EvLock, EvSet(CTRL_PAN_SPEED, sp),
                                EvSet(CTRL_TILT_SPEED, sl),
                                EvSet(CTRL_ZOOM_ABSOLUTE, z), EvSleep(d),
                                EvSet(CTRL_PAN_SPEED, 0), EvSet(CTRL_TILT_SPEED, 0),
                                EvUpdatePan(sp, d), EvUpdateTilt(sl, d),
                                EvUpdateZoom(z)>>
                  /\ pos = ZoomAfter(TiltAfter(PanAfter(fr[t].pos0, sp, d), sl, d), z)
                  /\ ctl[CTRL_ZOOM_ABSOLUTE] = z

\* C4 witness: a move with zoom target 9999 has completed with the zoom at 500
C4_MoveWithZoomDone ==
    \E t \in Threads :
        /\ At(t, 73) /\ fr[t].value = 9999 /\ fr[t].pan_dir = -2
        /\ fr[t].duration = 40 /\ pos.zoom = 500 /\ fr[t].pos0.zoom = 100

\* C5: every value written to PAN_SPEED or TILT_SPEED is -1, 0 or 1 and every
\* value written to ZOOM_ABSOLUTE lies in [100, 500], whatever the caller's
\* integers and whatever the configured speeds and zoom step.
C5_WrittenValuesInRange ==
    /\ ctl[CTRL_PAN_SPEED] \in {-1, 0, 1}
    /\ ctl[CTRL_TILT_SPEED] \in {-1, 0, 1}
    /\ ctl[CTRL_ZOOM_ABSOLUTE] # 0 =>
           (100 <= ctl[CTRL_ZOOM_ABSOLUTE] /\ ctl[CTRL_ZOOM_ABSOLUTE] <= 500)
    /\ \A t \in Threads : \A i \in 1..Len(log[t]) :
           log[t][i].k = "set" =>
               IF log[t][i].id = CTRL_ZOOM_ABSOLUTE
               THEN 100 <= log[t][i].v /\ log[t][i].v <= 500
               ELSE log[t][i].v \in {-1, 0, 1}

\* C5 witness: pan_left under a configured pan speed of INT_MIN has written
\* its speed, while the device zoom stands at 500 from a target of 9999
C5_ExtremesWritten ==
    \E t \in Threads :
        /\ At(t, 27) /\ fr[t].api = "pan_left" /\ fr[t].pan_dir = INT_MIN
        /\ ctl[CTRL_PAN_SPEED] = -1
        /\ ctl[CTRL_ZOOM_ABSOLUTE] = 500

InPanBounds(p)  == p.pan_min <= p.pan /\ p.pan <= p.pan_max
InTiltBounds(p) == p.tilt_min <= p.tilt /\ p.tilt <= p.tilt_max
InZoomRange(p)  == 100 <= p.zoom /\ p.zoom <= 500

\* C6 as stated: after any sequence of update_pan, update_tilt, update_zoom
\* and reset on a fresh estimator with bounds pan_min <= pan_max and
\* tilt_min <= tilt_max, pan and tilt lie within the bounds and zoom within
\* [100, 500].
C6_AlwaysInBounds ==
    op # "none" => InPanBounds(pos) /\ InTiltBounds(pos) /\ InZoomRange(pos)

\* C6 amended: zoom always lies in [100, 500]; pan lies within
\* [pan_min, pan_max] or is 0, the value construction and reset() give it
\* whatever the bounds, and lies within the bounds right after update_pan;
\* tilt likewise.  So pan and tilt stay within bounds that contain 0.
C6_InBoundsOrOrigin ==
    /\ InZoomRange(pos)
    /\ InPanBounds(pos) \/ pos.pan = 0
    /\ InTiltBounds(pos) \/ pos.tilt = 0
    /\ op = "update_pan" => InPanBounds(pos)
    /\ op = "update_tilt" => InTiltBounds(pos)
    /\ (pos.pan_min <= 0 /\ 0 <= pos.pan_max) => InPanBounds(pos)
    /\ (pos.tilt_min <= 0 /\ 0 <= pos.tilt_max) => InTiltBounds(pos)

\* C6 witness: update_pan has saturated at the upper pan bound of [1.0, 5.0]
\* while the tilt, never updated, is still 0 below its bounds [0.5, 3.0]
C6_SaturatedAndOrigin ==
    /\ op = "update_pan" /\ pos.pan_min = 10 /\ pos.pan = pos.pan_max
    /\ pos.tilt_min = 5 /\ pos.tilt = 0 /\ pos.zoom = 300

\* C7: when a device command fails inside a MotionController operation the
\* error reaches the caller with the lock released and the estimator as it
\* was before the call, whichever command failed.
C7_FailureLeavesEstimator ==
    \A t \in Threads :
        /\ st[t] = "throwing" => pos = fr[t].pos0 /\ mutex = t
        /\ st[t] = "threw" => mutex # t /\ pc[t] = 0
        /\ mutex = t => st[t] \in {"running", "throwing"}

\* C7 witness: a call failed after it had started the pan motor; the
\* estimator is untouched and another thread has since taken the lock
C7_FailedThenAcquired ==
    \E t \in Threads : \E u \in Threads \ {t} :
        /\ st[t] = "threw" /\ mutex = u /\ log[u] = <<EvLock>>
        /\ ctl[CTRL_PAN_SPEED] # 0 /\ pos = PositionTracker

\* z + delta clamped to [100, 500], for z in [100, 500] and any int delta
ZoomSum(z, delta) ==
    IF delta > 500 - z THEN 500 ELSE IF delta < 100 - z THEN 100 ELSE z + delta

\* C8 as stated: zoom_relative(delta) with the estimator's zoom at z writes
\* exactly one command, ZOOM_ABSOLUTE = clamp(z + delta, 100, 500), and sets
\* the estimator's zoom to that value; no speed command, no wait.
C8_ZoomRelativeExact ==
    \A t \in Threads :
        At(t, 87) =>
            LET want == ZoomSum(fr[t].pos0.zoom, fr[t].value)
            IN  /\ log[t] = <<EvLock, EvSet(CTRL_ZOOM_ABSOLUTE, want),
                              EvUpdateZoom(want)>>
                /\ pos = ZoomAfter(fr[t].pos0, want)

\* what a zoom call that came to an end does to the zoom z; a sum beyond int
\* may leave anything in the zoom range
ZoomEffect(z, e) ==
    IF e.k = "abs" THEN {Zoom(e.v)}
    ELSE IF e.k = "rel"
         THEN IF e.v > INT_MAX - z THEN 100..500 ELSE {Zoom(z + e.v)}
         ELSE {z}

\* the zooms that the calls `calls` of hist lead to from z, in any order
RECURSIVE SeqOutcomes(_, _)
SeqOutcomes(z, calls) ==
    IF calls = {} THEN {z}
    ELSE UNION { UNION { SeqOutcomes(z2, calls \ {i}) : z2 \in ZoomEffect(z, hist[i]) }
                 : i \in calls }

\* C9: zoom_relative reads the estimator's zoom and writes the device and the
\* estimator as one atomic step: between its read and its write the zoom does
\* not change, and once all calls have ended the estimator's zoom (and, when
\* no call failed, the device's) is what the zoom calls give in some
\* sequential order; two zoom_relative(+10) from 100 end at 120.
C9_ZoomLinearizable ==
    /\ \A t \in Threads :
           (st[t] = "running" /\ pc[t] \in {85, 86}) => pos.zoom = fr[t].pos0.zoom
    /\ Quiescent =>
           /\ pos.zoom \in SeqOutcomes(ZOOM_DEFAULT, 1..Len(hist))
           /\ (hist # <<>> /\ \A i \in 1..Len(hist) : hist[i].k # "threw")
                  => ctl[CTRL_ZOOM_ABSOLUTE] = pos.zoom
           /\ hist = <<[k |-> "rel", v |-> 10], [k |-> "rel", v |-> 10]>>
                  => pos.zoom = 120 /\ ctl[CTRL_ZOOM_ABSOLUTE] = 120

\* C9 witness: two threads have each completed a zoom by +10
C9_TwoStepsDone ==
    /\ \A t \in Threads : st[t] = "returned"
    /\ hist = <<[k |-> "rel", v |-> 10], [k |-> "rel", v |-> 10]>>
    /\ pos.zoom = 120

\* C10: zoom_absolute(value) issues exactly one command,
\* ZOOM_ABSOLUTE = clamp(value, 100, 500), with no wait and no speed command,
\* then sets the estimator's zoom to it; pan and tilt are unchanged.
C10_ZoomAbsolute ==
    \A t \in Threads :
        /\ At(t, 78) \/ At(t, 79) => pos = fr[t].pos0
        /\ At(t, 80) =>
              LET z == Zoom(fr[t].value)
              IN  /\ log[t] = <<EvLock, EvSet(CTRL_ZOOM_ABSOLUTE, z), EvUpdateZoom(z)>>
                  /\ pos = ZoomAfter(fr[t].pos0, z)
                  /\ ctl[CTRL_ZOOM_ABSOLUTE] = z

\* C10 witness: zoom_absolute(9999) has completed at 500 after an earlier pan
C10_ZoomAbsoluteDone ==
    \E t \in Threads :
        /\ At(t, 80) /\ fr[t].value = 9999 /\ pos.zoom = 500
        /\ pos.pan = 40 /\ fr[t].pos0.pan = 40

\* C11: stop() issues exactly two commands, PAN_SPEED = 0 then TILT_SPEED = 0,
\* whatever the speeds are; it never writes ZOOM_ABSOLUTE and leaves the
\* estimator's pan, tilt and zoom as they were.
C11_StopSequence ==
    \A t \in Threads :
        /\ (st[t] \in {"running", "throwing"} /\ pc[t] \in {91, 92, 93})
               => pos = fr[t].pos0
        /\ At(t, 92) => log[t] = <<EvLock, EvSet(CTRL_PAN_SPEED, 0)>>
        /\ At(t, 93) =>
              /\ log[t] = <<EvLock, EvSet(CTRL_PAN_SPEED, 0), EvSet(CTRL_TILT_SPEED, 0)>>
              /\ ctl[CTRL_PAN_SPEED] = 0 /\ ctl[CTRL_TILT_SPEED] = 0

\* C11 witness: stop() has completed after a move with zoom that failed with
\* the device zoom written: the device zoom and the estimator are as the
\* failed call left them
C11_StopDone ==
    \E t \in Threads :
        /\ At(t, 93) /\ hist = <<[k |-> "threw", v |-> 0]>>
        /\ ctl[CTRL_ZOOM_ABSOLUTE] = 500 /\ pos = PositionTracker

\* what one nudge of reset_position records: a separately locked pan or tilt
\* of 0.1 s at speed s on control id
PanNudge(s) ==
    <<EvLock, EvSet(CTRL_PAN_SPEED, s), EvSleep(1), EvSet(CTRL_PAN_SPEED, 0),
      EvUpdatePan(s, 1), EvUnlock>>
TiltNudge(s) ==
    <<EvLock, EvSet(CTRL_TILT_SPEED, s), EvSleep(1), EvSet(CTRL_TILT_SPEED, 0),
      EvUpdateTilt(s, 1), EvUnlock>>
Commands(l) == SelectSeq(l, LAMBDA e : e.k = "set")

\* C12: reset_position, with no failing command and no other thread, issues
\* exactly PAN_SPEED = 1, 0, -1, 0, TILT_SPEED = 1, 0, -1, 0, ZOOM_ABSOLUTE = 100
\* in this order; the estimator is reset after the last command; afterwards
\* both speed controls read 0 and the zoom control 100.
C12_ResetPositionTrace ==
    \A t \in Threads :
        rp[t] = 84 =>
            /\ log[t] = PanNudge(1) \o PanNudge(-1) \o TiltNudge(1) \o TiltNudge(-1)
                        \o <<EvLock, EvSet(CTRL_ZOOM_ABSOLUTE, 100), EvUpdateZoom(100),
                             EvUnlock, EvReset>>
            /\ Commands(log[t]) =
                   <<EvSet(CTRL_PAN_SPEED, 1), EvSet(CTRL_PAN_SPEED, 0),
                     EvSet(CTRL_PAN_SPEED, -1), EvSet(CTRL_PAN_SPEED, 0),
                     EvSet(CTRL_TILT_SPEED, 1), EvSet(CTRL_TILT_SPEED, 0),
                     EvSet(CTRL_TILT_SPEED, -1), EvSet(CTRL_TILT_SPEED, 0),
                     EvSet(CTRL_ZOOM_ABSOLUTE, 100)>>
            /\ ctl[CTRL_PAN_SPEED] = 0 /\ ctl[CTRL_TILT_SPEED] = 0
            /\ ctl[CTRL_ZOOM_ABSOLUTE] = 100

\* C12 witness: reset_position stands at its closing brace after an earlier
\* call that was no zoom call
C12_ResetPositionDone ==
    \E t \in Threads : rp[t] = 84 /\ ncalls = 2 /\ hist = <<>>

C13_ResetAfterZoom ==
    \E t \in Threads :
        /\ rp[t] = 84 /\ hist = <<[k |-> "abs", v |-> 9999]>>
        /\ pos = PositionTracker

\* C14 as stated: every write to the estimator's pan, tilt or zoom, the reset
\* of reset_position included, is made by the thread that holds the motion
\* lock: a thread whose last recorded step is an estimator write holds it.
C14_WritesUnderLock ==
    \A t \in Threads :
        (log[t] # <<>> /\ log[t][Len(log[t])].k \in
             {"update_pan", "update_tilt", "update_zoom", "reset"})
            => mutex = t

\* C15: the motion lock belongs to one MotionController: a call on the second
\* MotionController waits for that controller's lock only, never for a call on
\* the first, so both can be inside their wait at once.
C15_LockPerInstance ==
    \A u \in Threads \ {1} :
        /\ (At(u, 25) /\ peer.mutex = 0) => ENABLED peer_pan(u)
        /\ (st[u] = "running" /\ pc[u] \in {26, 27, 29, 30, 31}) => peer.mutex = u
        /\ mutex # u

\* C15 witness: a pan on each MotionController has issued its start command
\* and is in its wait
C15_BothWaiting ==
    \E u \in Threads \ {1} :
        /\ At(1, 27) /\ At(u, 27) /\ mutex = 1 /\ peer.mutex = u
        /\ ctl[CTRL_PAN_SPEED] # 0 /\ peer.ctl[CTRL_PAN_SPEED] # 0

(***************************** PresetManager claims ***********************)
Triple(p) == <<p.pan, p.tilt, p.zoom>>

\* C16: after save_preset and delete_preset calls that all returned
\* normally, a fresh PresetManager constructed on the same path is
\* constructed and lists exactly the names the calling manager holds.
C16_FreshInstanceListsSameNames ==
    (ret.obj /\ ret.clean) =>
        /\ Loaded(file).k = "ok"
        /\ Sorted(DOMAIN Loaded(file).presets) = Sorted(DOMAIN presets)

\* C17: writing the presets and reading them back gives every name again
\* with the pan, tilt and zoom it was saved with.
C17_SerializationRoundTrip ==
    ret.obj =>
        LET r == from_json(to_json(presets))
        IN  /\ r.k = "ok"
            /\ DOMAIN r.presets = DOMAIN presets
            /\ \A n \in DOMAIN presets : Triple(r.presets[n]) = Triple(presets[n])

\* C18: after save_preset(name, position) returned, recalling name gives the
\* pan, tilt and zoom of position, every other preset is as it was, and the
\* number of presets grew by one exactly when name was new.
C18_SaveIsUpsert ==
    (ret.k = "save_preset" /\ ~ret.threw) =>
        /\ Find(presets, ret.name).found
        /\ Triple(Find(presets, ret.name).second) = Triple(ret.value)
        /\ \A n \in DOMAIN ret.before \ {ret.name} :
              Find(presets, n).found /\ Find(presets, n).second = ret.before[n]
        /\ Cardinality(DOMAIN presets) =
              Cardinality(DOMAIN ret.before)
              + (IF ret.name \in DOMAIN ret.before THEN 0 ELSE 1)

C18_OverwroteAmongOthers ==
    /\ ret.k = "save_preset" /\ ~ret.threw
    /\ ret.name \in DOMAIN ret.before
    /\ Triple(ret.before[ret.name]) # Triple(ret.value)
    /\ Cardinality(DOMAIN ret.before) >= 2

\* C19: delete_preset(name) returns true exactly when name was present, and
\* afterwards the manager holds the presets it held before without name.
C19_DeleteReturnsPresence ==
    (ret.k = "delete_preset" /\ ~ret.threw) =>
        /\ ret.value = (ret.name \in DOMAIN ret.before)
        /\ presets = [n \in DOMAIN ret.before \ {ret.name} |-> ret.before[n]]

C19_DeletedAmongOthers ==
    /\ ret.k = "delete_preset" /\ ~ret.threw
    /\ ret.value = TRUE
    /\ Cardinality(DOMAIN ret.before) >= 2

\* C20: recall_preset of a name that is not saved returns the empty optional
\* and delete_preset of such a name returns false; neither throws and the
\* presets stay as they were.
C20_NotFoundIsAValue ==
    /\ (ret.k = "recall_preset" /\ ret.name \notin DOMAIN ret.before) =>
          ~ret.threw /\ ~ret.value.has_value /\ presets = ret.before
    /\ (ret.k = "delete_preset" /\ ret.name \notin DOMAIN ret.before) =>
          ~ret.threw /\ ret.value = FALSE /\ presets = ret.before

C20_MissedAmongOthers ==
    /\ ret.k \in {"recall_preset", "delete_preset"}
    /\ ret.name \notin DOMAIN ret.before
    /\ ret.before # NoPresets
    /\ presets = ret.before

\* C21: list_presets returns every name the manager holds exactly once and
\* in ascending order, whatever calls produced the set of names.
C21_ListIsSortedNames ==
    ret.k = "list_presets" =>
        /\ Len(ret.value) = Cardinality(DOMAIN presets)
        /\ {ret.value[i] : i \in 1..Len(ret.value)} = DOMAIN presets
        /\ \A i \in 1..Len(ret.value) : \A j \in 1..Len(ret.value) :
              i < j => StrLess(ret.value[i], ret.value[j])

C21_ListedThree ==
    /\ ret.k = "list_presets"
    /\ Len(ret.value) = Cardinality(Names)

\* C22: constructing a PresetManager, or calling load(), while the file does
\* not exist throws nothing and leaves the manager with no preset: the list
\* is empty and no name is found.
C22_MissingFileIsEmpty ==
    (ret.k \in {"PresetManager", "load"} /\ ~file.exists) =>
        /\ ~ret.threw /\ ret.obj
        /\ Sorted(DOMAIN presets) = <<>>
        /\ \A name \in Names : ~Find(presets, name).found

\* C23: loading a file whose content deviates from the shape to_json writes
\* throws a parse error; no such content is accepted.
C23_DeviationIsParseError ==
    (ret.k \in {"PresetManager", "load"} /\ file.text \in Deviating) =>
        ret.value = "error"

(***************************** Controller claims **************************)
\* C24: has_ptz_support returns true exactly when the device answers the
\* query of PAN_SPEED, TILT_SPEED and ZOOM_ABSOLUTE; when a query fails it
\* returns false and nothing is thrown; it calls only query_control.
C24_HasPtzSupport ==
    cam.k = "has_ptz_support" =>
        /\ cam.value = (Controls \subseteq cam.supported)
        /\ ~cam.threw
        /\ \A i \in 1..Len(cam.calls) : cam.calls[i].fn = "query_control"

C24_LaterQueryFailed ==
    /\ cam.k = "has_ptz_support"
    /\ cam.value = FALSE
    /\ Len(cam.calls) > 1

\* -x as the int negation computes it
Minus(x) == IF x = INT_MIN THEN {INT_MIN, INT_MAX} ELSE {-x}

Ignored(raw) ==
    LET line == trim(raw)
        eq_pos == IndexOf(line, "=")
    IN  \/ line = <<>>
        \/ IsCh(line[1], "#")
        \/ eq_pos # 0 /\ trim(SubSeq(line, 1, eq_pos - 1)) \notin Recognized

RECURSIVE Kept(_)
Kept(lines) ==
    IF lines = <<>> THEN <<>>
    ELSE IF Ignored(Head(lines)) THEN Kept(Tail(lines))
    ELSE Head(lines) \o <<Ch("\n")>> \o Kept(Tail(lines))

WithoutIgnored(f) == IF f.exists THEN [f EXCEPT !.text = Kept(Lines(f.text))] ELSE f

Returned(data) == <<device(data), pan_speed(data), tilt_speed(data), zoom_step(data)>>

\* C27: a Config loaded from a missing file holds the defaults; blank lines,
\* comment lines and assignments to unrecognized keys change nothing; and
\* after a save a fresh Config loaded from the same path returns, for the
\* four recognized keys, the values of the Config that saved.
C27_ConfigLoading ==
    /\ ~cfgfile.exists => FreshConfig(cfgfile) = set_defaults
    /\ FreshConfig(cfgfile) = FreshConfig(WithoutIgnored(cfgfile))
    /\ cfg.k = "save" => Returned(FreshConfig(cfgfile)) = Returned(cfg.data)

(************************ Controller construction claims ******************)
\* the file assigns DEVICE in a line that load reads
AssignsDevice(f) ==
    /\ f.exists
    /\ \E i \in 1..Len(Lines(f.text)) :
          LET line == trim(Lines(f.text)[i])
              eq_pos == IndexOf(line, "=")
          IN  /\ ~Ignored(Lines(f.text)[i])
              /\ eq_pos # 0
              /\ trim(SubSeq(line, 1, eq_pos - 1)) = KEY_DEVICE

\* C26: the constructor resolves the device path to its argument when that
\* is not empty, else to the DEVICE value of the loaded Config, else to the
\* default path; it opens the device on that path exactly when the device
\* was not open, and when it returns the device is open.
C26_PathResolution ==
    cam.k = "Controller" =>
        LET resolved == IF cam.arg # <<>> THEN cam.arg
                        ELSE IF AssignsDevice(cfgfile) THEN cfg.data[KEY_DEVICE]
                        ELSE Word(DEFAULT_DEVICE)
        IN  /\ cam.calls = IF cam.was_open THEN <<>>
                           ELSE <<[fn |-> "open", path |-> resolved]>>
            /\ ~cam.threw => (cam.built /\ cam.is_open /\ cam.device_path_ = resolved)

C26_OpenedFromConfig ==
    /\ cam.k = "Controller" /\ ~cam.threw /\ ~cam.was_open
    /\ cam.arg = <<>>
    /\ cam.open_path = Word("/dev/video2")

(************************** PositionTracker claims ************************)
\* C28: update_pan(speed, duration) sets pan to pan + speed * duration
\* clamped to [pan_min, pan_max] and changes nothing else, and update_tilt
\* does the same to tilt; so a move away from a bound at which the estimator
\* saturated starts from the bound.
C28_UpdateIsClampedSum ==
    /\ op.name = "update_pan" =>
          pos = [op.before EXCEPT !.pan = Clip(op.before.pan + op.speed * op.duration,
                                               op.before.pan_min, op.before.pan_max)]
    /\ op.name = "update_tilt" =>
          pos = [op.before EXCEPT !.tilt = Clip(op.before.tilt + op.speed * op.duration,
                                                op.before.tilt_min, op.before.tilt_max)]

\* C28 witness: from pan_max = 5.0, update_pan(-1, 2.0) gives 3.0
C28_ResumedFromBound ==
    /\ op.name = "update_pan" /\ op.speed = -1 /\ op.duration = 20
    /\ op.before.pan = EST_PAN_MAX /\ op.before.pan_max = EST_PAN_MAX
    /\ pos.pan = 30

\* C29: distance_to gives the same value in both directions, gives 0 for
\* equal pan and tilt, and does not change with the zoom or the bounds of
\* either position.
C29_DistanceOfPanTilt ==
    op.name = "distance_to" =>
        /\ op.value = distance_to(op.other, pos)
        /\ (pos.pan = op.other.pan /\ pos.tilt = op.other.tilt) => op.value = 0
        /\ \A z \in {ZOOM_MIN, ZOOM_MAX} : \A b \in {EST_PAN_MIN, 10} :
              /\ distance_to([pos EXCEPT !.zoom = z, !.pan_min = b], op.other) = op.value
              /\ distance_to(pos, [op.other EXCEPT !.zoom = z, !.pan_min = b]) = op.value

\* C29 witness: the distance from (1.0, 0, 500) to (5.0, -2.0, 100) is
\* sqrt(20) = 4.4 and the zooms differ
C29_DistanceTaken ==
    /\ op.name = "distance_to"
    /\ pos.pan = 10 /\ pos.tilt = 0 /\ pos.zoom = ZOOM_MAX
    /\ op.other.pan = 50 /\ op.other.tilt = -20 /\ op.other.zoom = ZOOM_MIN
    /\ op.value = 44

\* C30: loading terminates on every content of the file: from_json returns
\* or throws, it never stays in one state at one offset.
C30_LoadTerminates ==
    ret.k \in {"PresetManager", "load"} => ret.value \in {"ok", "error"}

\* C31: a failure is not cleaned up.  When set_control throws, the call ends
\* without writing any control: if the TILT_SPEED start of combined_move or
\* combined_move_with_zoom fails after the PAN_SPEED start went through, the
\* call has issued the PAN_SPEED start and nothing else, and PAN_SPEED keeps
\* the commanded speed; if the stop command of pan (tilt) fails, PAN_SPEED
\* (TILT_SPEED) keeps the commanded speed.  The unwinding writes nothing
\* either, so the value stays until a later call writes the control.
C31_NoCleanupOnFailure ==
    [][\A t \in Threads :
          /\ (st[t] = "running" /\ st'[t] = "throwing") =>
                /\ ctl' = ctl
                /\ pc[t] \in {48, 64} =>
                      /\ log[t] = <<EvLock, EvSet(CTRL_PAN_SPEED, Speed(fr[t].pan_dir))>>
                      /\ ctl'[CTRL_PAN_SPEED] = Speed(fr[t].pan_dir)
                /\ pc[t] = 29 => ctl'[CTRL_PAN_SPEED] = Speed(fr[t].pan_dir)
                /\ pc[t] = 39 => ctl'[CTRL_TILT_SPEED] = Speed(fr[t].tilt_dir)
          /\ (st[t] = "throwing" /\ st'[t] = "threw") => ctl' = ctl
          /\ (st[t] # "running" /\ \A u \in Threads \ {t} : st'[u] = st[u] /\ pc'[u] = pc[u])
                => ctl' = ctl]_vars

\* C31 witness: the TILT_SPEED start of a combined_move has failed and the pan
\* motor is still commanded to move
C31_TiltStartFailed ==
    \E t \in Threads :
        /\ st[t] = "throwing" /\ pc[t] = 48 /\ fr[t].api = "combined_move"
        /\ mutex = t
        /\ ctl[CTRL_PAN_SPEED] # 0

\* C32: the motion protocol never deadlocks and always progresses.  Under a
\* fair scheduler and a fair mutex every call that has started comes to its
\* end, by returning or by throwing, and whenever no call is in progress the
\* lock is free.
C32_EveryCallEnds ==
    /\ \A t \in Threads :
          [](st[t] \in {"running", "throwing"} => <>(st[t] \in {"returned", "threw"}))
    /\ [](Quiescent => mutex = 0)

\* C32 witness: a call waits for the lock while the call that holds it is in
\* its wait between the start and the stop commands
C32_WaitingForHolder ==
    \E t \in Threads : \E u \in Threads \ {t} :
        /\ At(t, 49) /\ mutex = t /\ HasSet(log[t])
        /\ At(u, 83) /\ log[u] = <<>>

\* C33: when save() fails inside save_preset or delete_preset, the error
\* reaches the caller and presets_ is what it was before the call.
C33_FailedWriteLeavesMemory ==
    (ret.k \in {"save_preset", "delete_preset"} /\ ret.threw) => presets = ret.before

\* C34: zoom_relative is right for every int delta: with the estimator's
\* zoom at z in [100, 500] the value computed at motion.cpp 84, written to
\* ZOOM_ABSOLUTE and stored in the estimator is clamp(z + delta, 100, 500)
\* with the sum taken in the unbounded integers; that holds for zoom_in and
\* zoom_out with any configured step as well.
C34_NoWrapAround ==
    \A t \in Threads :
        (st[t] = "running" /\ pc[t] \in {85, 86, 87}) =>
            LET want == ZoomSum(fr[t].pos0.zoom, fr[t].value)
            IN  /\ fr[t].zoom = want
                /\ pc[t] \in {86, 87} => ctl[CTRL_ZOOM_ABSOLUTE] = want
                /\ pc[t] = 87 => pos.zoom = want

\* no thread is inside a call of the Controller
NoCallInProgress == \A t \in Threads : Outside(t)

\* no call that writes the zoom has ended with a device error
NoZoomFailure == \A i \in 1..Len(hist) : hist[i].k # "threw"

\* ZOOM_ABSOLUTE has been written: the mock's control reads 0 until then,
\* and every value written lies in [100, 500]
ZoomWritten == get_zoom # NoControls[CTRL_ZOOM_ABSOLUTE]

\* C35 as stated: between the operations of a single thread that completed
\* without device error, get_zoom() equals position().zoom, from the
\* construction of the Controller onwards.
C35_ZoomAgrees ==
    (NoCallInProgress /\ NoZoomFailure) => get_zoom = pos.zoom

\* C35, amended: once an operation has written ZOOM_ABSOLUTE, get_zoom()
\* equals position().zoom between the operations of a single thread, as long
\* as no zoom-writing operation has failed; until the first write get_zoom()
\* is what the device holds while position().zoom is ZOOM_DEFAULT.
C35_ZoomAgreesOnceWritten ==
    /\ (NoCallInProgress /\ NoZoomFailure /\ ZoomWritten) => get_zoom = pos.zoom
    /\ ~ZoomWritten => pos.zoom = ZOOM_DEFAULT

\* C35 witness: a zoom_in and a recall_preset of the preset with zoom 9999
\* have completed; device and estimator are both at 500
C35_ZoomedAndRecalled ==
    /\ NoCallInProgress /\ NoZoomFailure
    /\ hist = <<[k |-> "rel", v |-> DEFAULT_ZOOM_STEP]>>
    /\ cam.k = "recall_preset" /\ cam.value = TRUE
    /\ get_zoom = ZOOM_MAX /\ pos.zoom = ZOOM_MAX

\* C36: Controller.recall_preset(name).  For a preset that exists it issues
\* exactly one device command, ZOOM_ABSOLUTE = clamp(preset.zoom, 100, 500),
\* the estimator's zoom becomes that value with pan and tilt as they were, no
\* speed command is issued, and it returns true; for a name without a preset
\* it returns false, issues no command and changes neither the estimator,
\* the device, the presets nor their file.
C36_RecallPreset ==
    [][\A t \in Threads :
          /\ (rp[t] = 106 /\ rp'[t] = 110) =>
                /\ ret'.name \in DOMAIN presets
                /\ fr'[t].value = presets[ret'.name].zoom
                /\ UNCHANGED <<pos, ctl, presets, file>>
          /\ (rp[t] = 110 /\ pc[t] = 79 /\ pc'[t] = 80) =>
                LET want == Zoom(presets[ret.name].zoom)
                IN  /\ log'[t] = <<EvLock, EvSet(CTRL_ZOOM_ABSOLUTE, want),
                                   EvUpdateZoom(want)>>
                    /\ pos' = ZoomAfter(fr[t].pos0, want)
                    /\ ctl' = ctl /\ ctl[CTRL_ZOOM_ABSOLUTE] = want
          /\ (rp[t] = 111 /\ rp'[t] = 0) =>
                /\ cam'.k = "recall_preset" /\ cam'.value = TRUE
                /\ Len(Commands(log[t])) = 1
                /\ UNCHANGED <<pos, ctl, presets, file>>
          /\ (rp[t] = 106 /\ rp'[t] = 0) =>
                /\ ret'.name \notin DOMAIN presets
                /\ cam'.k = "recall_preset" /\ cam'.value = FALSE
                /\ log'[t] = <<>>
                /\ UNCHANGED <<mutex, pos, ctl, presets, file>>]_vars

\* C36 witness: recall_preset of the preset whose zoom is 9999 has returned
\* true with ZOOM_ABSOLUTE = 500 written, after a pan had moved the estimator
C36_RecalledAboveRange ==
    /\ cam.k = "recall_preset" /\ cam.value = TRUE
    /\ ret.name = <<"a">> /\ presets[<<"a">>].zoom = 9999
    /\ NoCallInProgress
    /\ get_zoom = ZOOM_MAX /\ pos.zoom = ZOOM_MAX /\ pos.pan # 0

\* the estimator after the call with frame f has made all its updates
AfterCall(f) ==
    TiltAfter(PanAfter(f.pos0, f.pan_speed, f.duration), f.tilt_speed, f.duration)

\* The estimator states at the boundaries of the first motion call: the
\* state after construction, and the state the call leaves (the state it
\* will leave if it holds the lock now).
FirstBoundaries ==
    {PositionTracker}
    \cup (IF \E u \in Threads : st[u] = "running" /\ mutex = u
          THEN {AfterCall(fr[u]) : u \in {v \in Threads : st[v] = "running" /\ mutex = v}}
          ELSE {pos})

\* C37: a preset saved by Controller.save_preset while another thread moves
\* the camera holds the estimator's state at a boundary between complete
\* motion operations.  Stated for the time up to the end of the first motion
\* call: the saved (pan, tilt, zoom) is the state after construction or the
\* state that call leaves.
C37_SnapshotAtBoundary ==
    (ncalls <= 1 /\ ret.k = "save_preset") =>
        Triple(ret.value) \in {Triple(AsPreset(b)) : b \in FirstBoundaries}

\* thread t is inside a nudge of reset_position, between its start command
\* and its stop command
InNudge(t) ==
    /\ rp[t] \in {78, 79, 80, 81}
    /\ st[t] = "running" /\ pc[t] \in {27, 29, 37, 39}

\* the call thread u is in, if any, has issued nothing yet
NothingIssued(u) ==
    log[u] = <<>> \/ log[u][Len(log[u])].k \in {"unlock", "reset"}

\* C38: reset_position is a sequence of separately locked steps.  Between
\* two steps the thread holds no lock and every step so far has taken and
\* released the lock on its own, so another thread can run a whole motion
\* call there; inside a nudge, between its start and its stop command, the
\* thread holds the lock and no other thread has issued anything.
C38_StepsLockedSeparately ==
    \A t \in Threads :
        /\ (rp[t] \in 79..83 /\ st[t] = "returned") =>
              /\ mutex # t
              /\ Len(SelectSeq(log[t], LAMBDA e : e.k = "lock")) = rp[t] - 78
              /\ Len(SelectSeq(log[t], LAMBDA e : e.k = "unlock")) = rp[t] - 78
              /\ log[t][Len(log[t])] = EvUnlock
        /\ InNudge(t) =>
              /\ mutex = t
              /\ \A u \in Threads \ {t} : NothingIssued(u)

\* C38 witness: reset_position has made its two pan nudges and not yet begun
\* the first tilt nudge; another thread holds the lock and has issued the
\* start and the stop command of a pan of its own
C38_PanBetweenNudges ==
    \E t \in Threads : \E u \in Threads \ {t} :
        /\ rp[t] = 80 /\ st[t] = "returned"
        /\ log[t] = PanNudge(1) \o PanNudge(-1)
        /\ At(u, 31) /\ fr[u].api = "pan" /\ mutex = u
        /\ Commands(log[u]) = <<EvSet(CTRL_PAN_SPEED, 1), EvSet(CTRL_PAN_SPEED, 0)>>

\* C39: the estimator never contradicts the commanded motion.  When pan
\* (tilt) has updated the estimator, its pan (tilt) has not moved against the
\* sign of the speed that was commanded, and it is as before when that speed
\* is 0 or when no time was spent moving (a duration of zero or less, for
\* which sleep_for returns at once).
C39_EstimatorFollowsCommand ==
    \A t \in Threads :
        /\ At(t, 31) =>
              LET s == Speed(fr[t].pan_dir)
              IN  /\ s > 0 => pos.pan >= fr[t].pos0.pan
                  /\ s < 0 => pos.pan <= fr[t].pos0.pan
                  /\ (s = 0 \/ fr[t].duration <= 0) => pos.pan = fr[t].pos0.pan
        /\ At(t, 41) =>
              LET s == Speed(fr[t].tilt_dir)
              IN  /\ s > 0 => pos.tilt >= fr[t].pos0.tilt
                  /\ s < 0 => pos.tilt <= fr[t].pos0.tilt
                  /\ (s = 0 \/ fr[t].duration <= 0) => pos.tilt = fr[t].pos0.tilt

\* C40: Controller.device_path() names the path on which the device is open:
\* whenever a Controller exists and its device is open, device_path_ is the
\* path given to the open call that opened the device, after construction on
\* an open or a closed device and after any set_device_path.
C40_DevicePathIsOpenPath ==
    (cam.built /\ cam.is_open) => cam.device_path_ = cam.open_path

====
